---- MODULE Spec2Model ----
(***************************************************************************)
(* A model of the repository-map pipeline of cyber-nic/germ.               *)
(*                                                                         *)
(*   package germ (src/repomap.go): GenerateRepoMap -> GetRankedTagsMap -> *)
(*     getTagsFromFiles -> getRankedTagsByPageRank (buildReferenceMaps,    *)
(*     buildFileGraph, PageRank, distributeRank, sort) -> toTree.          *)
(*   package orb (src/unnamed/part_000): the earlier front end with the    *)
(*     tag cache (GetTags) and the outline cache (GetRankedTagsMap).       *)
(*                                                                         *)
(* Real numbers are modelled in fixed point; every scale is named.  Text   *)
(* is modelled as a sequence of lines, a line as a record that keeps the   *)
(* line's origin and its length in bytes.                                  *)
(***************************************************************************)
EXTENDS Integers, Sequences, FiniteSets, TLC

(***************************************************************************)
(* The bounded universe of names.                                          *)
(***************************************************************************)
\* Relative file names, listed in Go string order.
FileOrder == <<"a.go", "b.go", "c.go">>
Files == {FileOrder[i] : i \in 1..Len(FileOrder)}

\* Identifiers, listed in Go string order ('F' < '_').
SymbolOrder == <<"Foo", "_bar">>
Symbols == {SymbolOrder[i] : i \in 1..Len(SymbolOrder)}

TagKindDef == "def"
TagKindRef == "ref"

\* strings.HasPrefix(symbol, "_") on the universe of identifiers.
HasUnderscorePrefix(symbol) == symbol \in {"_bar"}

\* The position of a name in an ordered universe: a < b in Go iff Pos(a) < Pos(b).
Pos(order, name) == CHOOSE i \in 1..Len(order) : order[i] = name

FileLess(f1, f2) == Pos(FileOrder, f1) < Pos(FileOrder, f2)
SymbolLess(s1, s2) == Pos(SymbolOrder, s1) < Pos(SymbolOrder, s2)

(***************************************************************************)
(* Generic helpers on sequences and sets.                                  *)
(***************************************************************************)
Range(s) == {s[i] : i \in 1..Len(s)}

RECURSIVE SumSeq(_)
SumSeq(s) == IF s = <<>> THEN 0 ELSE Head(s) + SumSeq(Tail(s))

RECURSIVE Flatten(_)
Flatten(ss) == IF ss = <<>> THEN <<>> ELSE Head(ss) \o Flatten(Tail(ss))

Min(a, b) == IF a < b THEN a ELSE b
Max(a, b) == IF a > b THEN a ELSE b

\* The function f as an explicit table (evaluated once, not on every application).
Table(f) == f @@ <<>>

\* Largest k with k * k <= n.
ISqrt(n) == CHOOSE k \in 0..n : k * k <= n /\ (k + 1) * (k + 1) > n

(***************************************************************************)
(* Fixed-point scales.  A file rank r stands for r / PRScale; a transition *)
(* coefficient c for c / CoefScale; an edge weight w for w / 100 (the      *)
(* multiplier in tenths times the square root in tenths); an edge rank e   *)
(* for e / (PRScale * ShareScale).                                         *)
(***************************************************************************)
PRScale == 10 ^ 5
CoefScale == 10 ^ 4
\* damping factor of network.PageRank(g, 0.85, 1e-6), in percent and in 1 / CoefScale
DampPercent == 85
Damp == (DampPercent * CoefScale) \div 100
\* number of power iterations performed in place of the 1e-6 tolerance
PRIters == 40

RECURSIVE Factorial(_)
Factorial(n) == IF n <= 1 THEN 1 ELSE n * Factorial(n - 1)

\* Every share 1 / |D_s| (|D_s| <= |Files|) is a whole number of 1 / ShareScale.
ShareScale == Factorial(Cardinality(Files))

(***************************************************************************)
(* Paths and tags.                                                         *)
(***************************************************************************)
Root == "/repo"

\* The absolute path of a file of the repository.
AbsPath(rel) == <<Root, rel>>

\* GetRelFname: filepath.Rel(r.Root, fname); the path itself when that fails.
GetRelFname(fname) == IF fname[1] = Root THEN fname[2] ELSE fname

Tag(relFname, fname, line, name, kind) ==
    [FileName |-> relFname, FilePath |-> fname, Line |-> line, Name |-> name, Kind |-> kind]

(***************************************************************************)
(* buildReferenceMaps.  A Go map is a function on the whole universe of    *)
(* keys whose value at an absent key is the zero value (empty set, empty   *)
(* sequence): a key is present iff its value is non-empty.                 *)
(***************************************************************************)
\* The elements of a set of files as a sequence (one map iteration order).
RECURSIVE FileSetToSeq(_)
FileSetToSeq(S) ==
    IF S = {} THEN <<>>
    ELSE LET f == CHOOSE x \in S : \A y \in S : ~FileLess(y, x)
         IN <<f>> \o FileSetToSeq(S \ {f})

\* Variant of buildReferenceMaps that leaves empty references empty.
buildReferenceMapsWithoutFallback(allTags) ==
    LET IsDef(t) == t.Kind = TagKindDef
        IsRef(t) == t.Kind = TagKindRef
        defines == Table([s \in Symbols |->
            {GetRelFname(allTags[i].FilePath) :
                i \in {j \in 1..Len(allTags) : IsDef(allTags[j]) /\ allTags[j].Name = s}}])
        refTags(s) == SelectSeq(allTags, LAMBDA t : IsRef(t) /\ t.Name = s)
        collected == Table([s \in Symbols |->
            LET refs == refTags(s)
            IN Table([i \in 1..Len(refs) |-> GetRelFname(refs[i].FilePath)])])
        references == collected
        definitions == Table([k \in Files \X Symbols |->
            SelectSeq(allTags, LAMBDA t : IsDef(t) /\ GetRelFname(t.FilePath) = k[1]
                                                   /\ t.Name = k[2])])
        identifiers == {s \in Symbols : defines[s] # {} /\ references[s] # <<>>}
    IN [defines |-> defines, references |-> references,
        definitions |-> definitions, identifiers |-> identifiers]

buildReferenceMaps(allTags) ==
    LET IsDef(t) == t.Kind = TagKindDef
        IsRef(t) == t.Kind = TagKindRef
        defines == Table([s \in Symbols |->
            {GetRelFname(allTags[i].FilePath) :
                i \in {j \in 1..Len(allTags) : IsDef(allTags[j]) /\ allTags[j].Name = s}}])
        refTags(s) == SelectSeq(allTags, LAMBDA t : IsRef(t) /\ t.Name = s)
        collected == Table([s \in Symbols |->
            LET refs == refTags(s)
            IN Table([i \in 1..Len(refs) |-> GetRelFname(refs[i].FilePath)])])
        \* len(references) == 0: fall back to one self-reference per defining file
        references == IF \A s \in Symbols : collected[s] = <<>>
                      THEN Table([s \in Symbols |-> FileSetToSeq(defines[s])])
                      ELSE collected
        definitions == Table([k \in Files \X Symbols |->
            SelectSeq(allTags, LAMBDA t : IsDef(t) /\ GetRelFname(t.FilePath) = k[1]
                                                   /\ t.Name = k[2])])
        identifiers == {s \in Symbols : defines[s] # {} /\ references[s] # <<>>}
    IN [defines |-> defines, references |-> references,
        definitions |-> definitions, identifiers |-> identifiers]

(***************************************************************************)
(* Identifier weight and file graph.                                       *)
(***************************************************************************)
\* The multiplier mul of buildFileGraph and distributeRank, in tenths.
MulTenthsUnderscoreFirst(symbol, mentionedIdents) ==
    IF HasUnderscorePrefix(symbol) THEN 1
    ELSE IF symbol \in mentionedIdents THEN 100
    ELSE 10

MulTenths(symbol, mentionedIdents) ==
    IF symbol \in mentionedIdents THEN 100
    ELSE IF HasUnderscorePrefix(symbol) THEN 1
    ELSE 10

\* math.Sqrt(float64(n)), in tenths.
SqrtTenths(n) == ISqrt(100 * n)

\* w := mul * math.Sqrt(float64(len(references[ident]))), in hundredths.
EdgeWeight(symbol, refMap, mentionedIdents) ==
    MulTenths(symbol, mentionedIdents) * SqrtTenths(Len(refMap))

\* Number of occurrences of x in the sequence s.
Count(s, x) == Cardinality({i \in 1..Len(s) : s[i] = x})

\* The graph: its nodes, the number of parallel lines refFile -> defFile added
\* for each identifier, and the weight carried by each line of an identifier.
buildFileGraph(defines, references, identifiers, mentionedIdents) ==
    LET fileSet == UNION {defines[s] : s \in Symbols}
                   \cup UNION {Range(references[s]) : s \in Symbols}
    IN [nodes |-> fileSet,
        lines |-> Table([e \in fileSet \X fileSet \X identifiers |->
                     IF e[2] \in defines[e[3]] THEN Count(references[e[3]], e[1]) ELSE 0]),
        weight |-> Table([s \in identifiers |->
                     EdgeWeight(s, references[s], mentionedIdents)])]

\* Weight(u, v) of the multigraph: the sum of the weights of the lines u -> v.
RECURSIVE SumOver(_, _)
SumOver(S, f) ==
    IF S = {} THEN 0
    ELSE LET x == CHOOSE y \in S : TRUE IN f[x] + SumOver(S \ {x}, f)

GraphWeight(g, u, v) ==
    LET idents == DOMAIN g.weight
    IN SumOver(idents, Table([s \in idents |-> g.lines[<<u, v, s>>] * g.weight[s]]))

(***************************************************************************)
(* network.PageRank(g, 0.85, 1e-6): the edge-weighted power iteration of   *)
(* gonum.  Column u of the transition matrix is damp * w(u,v) / z(u) for a *)
(* node with out-weight z(u) > 0 and damp / N for a dangling node, plus    *)
(* (1 - damp) / N everywhere.  No personalization vector is taken.         *)
(***************************************************************************)
PRCoef(g, u, v) ==
    LET n == Cardinality(g.nodes)
        z == SumOver(g.nodes, [x \in g.nodes |-> GraphWeight(g, u, x)])
    IN IF z = 0 THEN CoefScale \div n
       ELSE (Damp * GraphWeight(g, u, v)) \div z + (CoefScale - Damp) \div n

PRStep(coef, nodes, r) ==
    Table([v \in nodes |->
        SumOver(nodes, [u \in nodes |-> (r[u] * coef[<<u, v>>]) \div CoefScale])])

RECURSIVE PRIterate(_, _, _, _)
PRIterate(coef, nodes, r, k) ==
    IF k = 0 THEN r
    ELSE LET next == PRStep(coef, nodes, r)
         IN IF DOMAIN next = nodes THEN PRIterate(coef, nodes, next, k - 1) ELSE next

PageRank(g) ==
    LET n == Cardinality(g.nodes)
        coef == Table([e \in g.nodes \X g.nodes |-> PRCoef(g, e[1], e[2])])
    IN IF n = 0 THEN <<>>
       ELSE PRIterate(coef, g.nodes, Table([v \in g.nodes |-> PRScale \div n]), PRIters)

(***************************************************************************)
(* distributeRank.                                                         *)
(***************************************************************************)
\* portion := srcRank * (w / sumW)
Portion(srcRank, w, sumW) == srcRank * ((w * ShareScale) \div sumW)

\* Variant of distributeRank that credits the referencing file of an edge
\* instead of the defining file.
distributeRankToReferrer(pr, defines, references, mentionedIdents) ==
    LET keys == {k \in Files \X Symbols :
                    defines[k[2]] # {} /\ k[1] \in Range(references[k[2]])}
    IN Table([k \in keys |-> Count(references[k[2]], k[1]) * pr[k[1]]])

\* Variant of distributeRank that gives every definition a rank, referenced
\* or not.
distributeRankToEveryDefinition(pr, defines, references, mentionedIdents) ==
    Table([k \in {k \in Files \X Symbols : k[1] \in defines[k[2]]} |-> 0])

distributeRank(pr, defines, references, mentionedIdents) ==
    LET keys == {k \in Files \X Symbols :
                    references[k[2]] # <<>> /\ k[1] \in defines[k[2]]}
        Add(symbol) ==
            LET refMap == references[symbol]
                w == EdgeWeight(symbol, refMap, mentionedIdents)
                sumW == Cardinality(defines[symbol]) * w
            IN IF sumW = 0 THEN 0
               ELSE SumSeq([i \in 1..Len(refMap) |-> Portion(pr[refMap[i]], w, sumW)])
    IN Table([k \in keys |-> Add(k[2])])

(***************************************************************************)
(* toDefRankSlice and the sort by rank, then file name, then symbol.       *)
(***************************************************************************)
DefRankLessByName(edgeRanks, k1, k2) ==
    IF k1[1] # k2[1] THEN FileLess(k1[1], k2[1])
    ELSE SymbolLess(k1[2], k2[2])

DefRankLess(edgeRanks, k1, k2) ==
    IF edgeRanks[k1] # edgeRanks[k2] THEN edgeRanks[k1] > edgeRanks[k2]
    ELSE IF k1[1] # k2[1] THEN FileLess(k1[1], k2[1])
    ELSE SymbolLess(k1[2], k2[2])

RECURSIVE SortKeys(_, _)
SortKeys(edgeRanks, keys) ==
    IF keys = {} THEN <<>>
    ELSE LET first == CHOOSE k \in keys :
                         \A o \in keys \ {k} : DefRankLess(edgeRanks, k, o)
         IN <<first>> \o SortKeys(edgeRanks, keys \ {first})

sortDefRankSlice(edgeRanks) == SortKeys(edgeRanks, DOMAIN edgeRanks)

(***************************************************************************)
(* getRankedTagsByPageRank.  noise is the deviation of the computed file   *)
(* ranks from the fixed point (random start vector, tolerance, summation   *)
(* order), in 1 / PRScale.                                                 *)
(***************************************************************************)
\* The personalization vector the function builds (in 1 / |fileSet|).
Personalization(fileSet, mentionedFnames) ==
    [f \in fileSet |-> IF f \in mentionedFnames THEN 100 ELSE 1]

\* The file ranks handed to distributeRank.
FileRanks(g, personal, noise) ==
    LET pr == PageRank(g) IN Table([f \in g.nodes |-> pr[f] + noise[f]])

\* The chat files skipped when the final tags are gathered.
chatRelFnames(chatFnames) == {}

EdgeRanks(allTags, mentionedFnames, mentionedIdents, noise) ==
    LET m == buildReferenceMaps(allTags)
        g == buildFileGraph(m.defines, m.references, m.identifiers, mentionedIdents)
        personal == Personalization(g.nodes, mentionedFnames)
        pr == FileRanks(g, personal, noise)
    IN distributeRank(pr, m.defines, m.references, mentionedIdents)

getRankedTagsByPageRank(allTags, chatFnames, mentionedFnames, mentionedIdents, noise) ==
    LET m == buildReferenceMaps(allTags)
        edgeRanks == EdgeRanks(allTags, mentionedFnames, mentionedIdents, noise)
        defRankSlice == sortDefRankSlice(edgeRanks)
        kept == SelectSeq(defRankSlice, LAMBDA dr : dr[1] \notin chatRelFnames(chatFnames))
    IN Flatten([i \in 1..Len(kept) |-> m.definitions[kept[i]]])

(***************************************************************************)
(* Text.  A string is the sequence of its lines, as strings.Split(s, "\n") *)
(* returns them (never empty: "" is one empty line).  A line keeps where   *)
(* it comes from and its length in bytes.                                  *)
(***************************************************************************)
Line(kind, file, row, len) == [kind |-> kind, file |-> file, row |-> row, len |-> len]

EmptyLine == Line("", "", 0, 0)

\* The empty string.
EmptyText == <<EmptyLine>>

\* The string "\n".
Newline == <<EmptyLine, EmptyLine>>

\* Two fragments put on one line.
JoinLine(l1, l2) ==
    IF l1.len = 0 THEN l2
    ELSE IF l2.len = 0 THEN l1
    ELSE Line(l1.kind, l1.file, l1.row, l1.len + l2.len)

\* s1 + s2
Concat(s1, s2) ==
    SubSeq(s1, 1, Len(s1) - 1) \o <<JoinLine(s1[Len(s1)], s2[1])>> \o Tail(s2)

\* len(s): the bytes of the lines and one newline between two lines.
TextLen(s) == SumSeq([i \in 1..Len(s) |-> s[i].len]) + (Len(s) - 1)

\* The lines given, each terminated by a newline.
Terminated(lines) == lines \o <<EmptyLine>>

\* len(fname) for the file names of the universe ("a.go").
NameLen(fname) == 4

(***************************************************************************)
(* Token estimation.                                                       *)
(***************************************************************************)
\* ModelStub.TokenCount: len(text) / 4
ModelTokenCount(text) == TextLen(text) \div 4

\* RepoMap.TokenCount, as the fraction <<numerator, denominator>>.
TokenCount(text) ==
    IF TextLen(text) < 200 THEN <<ModelTokenCount(text), 1>>
    ELSE LET numLines == Len(text)
             step == Max(1, numLines \div 100)
             picked == {i \in 1..numLines : (i - 1) % step = 0}
             \* strings.SplitAfter keeps the newline on every line but the last
             piece(i) == text[i].len + (IF i < numLines THEN 1 ELSE 0)
             sampleLen == SumSeq([i \in 1..numLines |-> IF i \in picked THEN piece(i) ELSE 0])
             sampleTokens == sampleLen \div 4
         IN <<sampleTokens * TextLen(text), sampleLen>>

(***************************************************************************)
(* Files.  The bytes of a file are its source lines; a source line holds   *)
(* at most one capture of the tag query.                                   *)
(***************************************************************************)
SourceLine(kind, name, len) == [kind |-> kind, name |-> name, len |-> len]

\* GetTagsRaw / GetTagsFromQueryCapture: one tag per captured line, in source
\* order, with the 0-based row; the empty list for a file without captures.
GetTagsRaw(fname, relFname, code) ==
    LET rows == SelectSeq([i \in 1..Len(code) |-> i], LAMBDA i : code[i].kind # "")
    IN [j \in 1..Len(rows) |->
          Tag(relFname, fname, rows[j] - 1, code[rows[j]].name, code[rows[j]].kind)]

\* ReadSourceCode fails on a file that cannot be read or is empty.
ExtractionFails(code) == code = <<>>

\* uniqueElements: the elements of the slices, each once, by first occurrence.
RECURSIVE Dedup(_, _)
Dedup(s, seen) ==
    IF s = <<>> THEN <<>>
    ELSE IF Head(s) \in seen THEN Dedup(Tail(s), seen)
    ELSE <<Head(s)>> \o Dedup(Tail(s), seen \cup {Head(s)})

uniqueElementsOfLaterSliceFirst(slice1, slice2) == Dedup(slice2 \o slice1, {})

uniqueElements(slice1, slice2) == Dedup(slice1 \o slice2, {})

\* Variant of getTagsFromFiles that returns at the first file that fails.
RECURSIVE getTagsFromFilesUntilFailure(_, _)
getTagsFromFilesUntilFailure(allFnames, files) ==
    IF allFnames = <<>> \/ ExtractionFails(files[GetRelFname(Head(allFnames))]) THEN <<>>
    ELSE GetTagsRaw(Head(allFnames), GetRelFname(Head(allFnames)),
                    files[GetRelFname(Head(allFnames))])
         \o getTagsFromFilesUntilFailure(Tail(allFnames), files)

\* getTagsFromFiles: the tags of the files that are extracted, in input order.
getTagsFromFiles(allFnames, files) ==
    Flatten([i \in 1..Len(allFnames) |->
        LET fname == allFnames[i]
            code == files[GetRelFname(fname)]
        IN IF ExtractionFails(code) THEN <<>>
           ELSE GetTagsRaw(fname, GetRelFname(fname), code)])

\* getTagsFromFiles, its log: the files for which "Failed to get tags" is
\* written at level warn during one pass over allFnames (every file whose
\* extraction fails with an error other than ErrorUnsupportedLanguage).
getTagsFromFilesWarnings(allFnames, files) ==
    {allFnames[i] : i \in {j \in 1..Len(allFnames) :
                              ExtractionFails(files[GetRelFname(allFnames[j])])}}

(***************************************************************************)
(* renderTree and toTree.                                                  *)
(***************************************************************************)
\* renderTree: the snippet of the context renderer, here the source lines of
\* interest in row order, each terminated by a newline; "" when the renderer
\* fails on the file.
renderTree(relFname, code, linesOfInterest, renderFail) ==
    IF relFname \in renderFail THEN EmptyText
    ELSE LET rows == SelectSeq([i \in 1..Len(code) |-> i],
                               LAMBDA i : (i - 1) \in Range(linesOfInterest))
         IN Terminated([j \in 1..Len(rows) |->
                           Line("code", relFname, rows[j] - 1, code[rows[j]].len)])

\* A comparator that orders nothing (variant of TagLess: the tags stay in the
\* order of the ranking).
TagLessUnordered(t1, t2) == FALSE

\* sort.Slice(tags, by FileName, then Line)
TagLess(t1, t2) ==
    IF t1.FileName # t2.FileName THEN FileLess(t1.FileName, t2.FileName)
    ELSE t1.Line < t2.Line

RECURSIVE InsertTag(_, _)
InsertTag(sorted, t) ==
    IF sorted = <<>> THEN <<t>>
    ELSE IF TagLess(t, Head(sorted)) THEN <<t>> \o sorted
    ELSE <<Head(sorted)>> \o InsertTag(Tail(sorted), t)

RECURSIVE SortTags(_)
SortTags(tags) ==
    IF tags = <<>> THEN <<>> ELSE InsertTag(SortTags(Tail(tags)), Head(tags))

sentinel == "__sentinel_tag__"

\* "\n" + curFname + ":\n"
Header(curFname) == <<EmptyLine, Line("header", curFname, 0, NameLen(curFname) + 1), EmptyLine>>

\* The loop of toTree over tags[i..], in the state (curFname, curAbsFname,
\* linesOfInterest, output); linesOfInterest is the nil slice before the
\* first file.
RECURSIVE toTreeLoop(_, _, _, _, _, _, _)
toTreeLoop(tags, i, cur, loi, output, files, fail) ==
    IF i > Len(tags) THEN output
    ELSE
      LET t == tags[i]
          relFname == t.FileName
      IN IF relFname # cur.fname
         THEN LET flush == cur.fname # "" /\ ~loi.isNil
                  unreadable == flush /\ GetRelFname(cur.abs) \in fail.read
                  code == files[GetRelFname(cur.abs)]
                  out1 == IF flush THEN Concat(output, Header(cur.fname)) ELSE output
                  out2 == IF flush /\ ~unreadable
                          THEN Concat(out1, renderTree(cur.fname, code, loi.lines, fail.render))
                          ELSE out1
              IN IF unreadable
                 \* os.ReadFile failed: continue with the next tag, state unchanged
                 THEN toTreeLoop(tags, i + 1, cur, loi, out1, files, fail)
                 ELSE IF relFname = sentinel THEN out2
                 ELSE toTreeLoop(tags, i + 1, [fname |-> relFname, abs |-> t.FilePath],
                                 [isNil |-> FALSE, lines |-> <<t.Line>>], out2, files, fail)
         ELSE toTreeLoop(tags, i + 1, cur,
                         IF ~loi.isNil THEN [loi EXCEPT !.lines = Append(@, t.Line)] ELSE loi,
                         output, files, fail)

\* line[:100] for every line longer than 100 bytes
MaxLineLen == 100

\* Variant of Truncate that leaves every line as it is.
TruncateNothing(lines) == lines

Truncate(lines) ==
    [i \in 1..Len(lines) |->
        IF lines[i].len > MaxLineLen
        THEN Line(lines[i].kind, lines[i].file, lines[i].row, MaxLineLen)
        ELSE lines[i]]

toTree(tags, chatFnames, files, fail) ==
    IF tags = <<>> THEN EmptyText
    ELSE LET sorted == SortTags(tags)
             withSentinel == Append(sorted, Tag(sentinel, <<"", "">>, 0, sentinel, ""))
             output == toTreeLoop(withSentinel, 1, [fname |-> "", abs |-> <<"", "">>],
                                  [isNil |-> TRUE, lines |-> <<>>], EmptyText, files, fail)
         IN Concat(Truncate(output), Newline)

(***************************************************************************)
(* GetRankedTagsMap and GenerateRepoMap (package germ).                    *)
(***************************************************************************)
\* Variant of GetRankedTagsMap that leaves the top-ranked tag out of the tree.
GetRankedTagsMapWithoutTop(chatFnames, otherFnames, maxMapTokens, mentionedFnames, mentionedIdents, forceRefresh, fs, fail, noise) ==
    LET allTags == getTagsFromFiles(uniqueElements(chatFnames, otherFnames), fs)
        finalTags == getRankedTagsByPageRank(allTags, chatFnames, mentionedFnames,
                                             mentionedIdents, noise)
    IN IF allTags = <<>>
       THEN [allTags |-> allTags, finalTags |-> <<>>, bestTree |-> EmptyText, stored |-> FALSE]
       ELSE [allTags |-> allTags, finalTags |-> finalTags,
             bestTree |-> IF finalTags = <<>> THEN EmptyText
                          ELSE toTree(Tail(finalTags), chatFnames, fs, fail),
             stored |-> TRUE]

\* GetRankedTagsMap: the final tags and the tree made of them.  The budget
\* maxMapTokens and forceRefresh are accepted and not consulted.
GetRankedTagsMap(chatFnames, otherFnames, maxMapTokens, mentionedFnames, mentionedIdents, forceRefresh, fs, fail, noise) ==
    LET allFnames == uniqueElements(chatFnames, otherFnames)
        allTags == getTagsFromFiles(allFnames, fs)
        rankedTags == getRankedTagsByPageRank(allTags, chatFnames, mentionedFnames,
                                              mentionedIdents, noise)
        finalTags == rankedTags
    IN IF allTags = <<>>
       THEN [allTags |-> allTags, finalTags |-> <<>>, bestTree |-> EmptyText, stored |-> FALSE]
       ELSE [allTags |-> allTags, finalTags |-> finalTags,
             bestTree |-> toTree(finalTags, chatFnames, fs, fail), stored |-> TRUE]

padding == 4096

\* Variant of EffectiveBudget that takes the target without looking at its sign.
EffectiveBudgetOfAnyTarget(c, chatFiles) ==
    LET t == c.MaxMapTokens * c.MapMulNoFiles
        t2 == Max(c.MaxCtxWindow - padding, 0)
    IN IF Len(chatFiles) = 0 /\ c.MaxCtxWindow > 0 THEN Min(t, t2) ELSE c.MaxMapTokens

\* Variant of EffectiveBudget that never enlarges the budget.
EffectiveBudgetAsConfigured(c, chatFiles) == c.MaxMapTokens

\* The budget GenerateRepoMap hands to GetRankedTagsMap.
EffectiveBudget(c, chatFiles) ==
    LET maxMapTokens == c.MaxMapTokens
        t == maxMapTokens * c.MapMulNoFiles
        t2 == Max(c.MaxCtxWindow - padding, 0)
        target == IF maxMapTokens > 0 /\ c.MaxCtxWindow > 0 THEN Min(t, t2) ELSE 0
    IN IF Len(chatFiles) = 0 /\ c.MaxCtxWindow > 0 /\ target > 0 THEN target ELSE maxMapTokens

\* strings.ReplaceAll(r.RepoContentPx, "{other}", other): the prefix with the
\* placeholder of its lines replaced by other ("other " or "").
ExpandPrefix(px, chatFiles) ==
    [i \in 1..Len(px) |->
        IF px[i].kind = "prefix{other}"
        THEN Line("prefix", "", 0,
                  px[i].len - 7 + (IF Len(chatFiles) > 0 THEN 6 ELSE 0))
        ELSE px[i]]

(***************************************************************************)
(* package orb (src/unnamed/part_000): the tag cache and the outline cache.*)
(* A cache is a function on the keys it holds.  mt gives the modification  *)
(* time of every file in seconds, -1 for a file that cannot be stat'ed.    *)
(***************************************************************************)
NoEntries == <<>>

OrbTag(relFname, fname, line, text, kind) ==
    [Name |-> relFname, Path |-> fname, Line |-> line, Text |-> text, Kind |-> kind]

\* GetMtime: the modification time in Unix seconds, or -1 on error.
GetMtime(fname, mt) == mt[GetRelFname(fname)]

\* GetTagsRaw of package orb: an error for an empty file, else one tag per
\* captured line.
GetTagsRawOrb(fname, relFname, code) ==
    IF code = <<>> THEN [err |-> TRUE, data |-> <<>>]
    ELSE LET rows == SelectSeq([i \in 1..Len(code) |-> i], LAMBDA i : code[i].kind # "")
         IN [err |-> FALSE,
             data |-> [j \in 1..Len(rows) |->
                         OrbTag(relFname, fname, rows[j] - 1, code[rows[j]].name,
                                code[rows[j]].kind)]]

\* Variant of CacheFresh that takes every stored entry for current.
CacheFreshAlways(stored, fileMtime) == TRUE

\* mt == fileMtime
CacheFresh(stored, fileMtime) == stored.mtime = fileMtime

\* GetTags: the tags returned, whether an error is returned, and the cache
\* the call leaves behind.
GetTags(fname, relFname, cache, fs, mt) ==
    LET fileMtime == GetMtime(fname, mt)
        raw == GetTagsRawOrb(fname, relFname, fs[relFname])
    IN IF fileMtime < 0
       THEN [err |-> TRUE, data |-> <<>>, hit |-> FALSE, cache |-> cache]
       ELSE IF fname \in DOMAIN cache /\ CacheFresh(cache[fname], fileMtime)
       THEN [err |-> FALSE, data |-> cache[fname].data, hit |-> TRUE, cache |-> cache]
       ELSE IF raw.err
       THEN [err |-> TRUE, data |-> <<>>, hit |-> FALSE, cache |-> cache]
       ELSE [err |-> FALSE, data |-> raw.data, hit |-> FALSE,
             cache |-> (fname :> [mtime |-> fileMtime, data |-> raw.data]) @@ cache]

\* getTagsFromFiles of package orb over the names in the order given: the
\* tags gathered, the tag cache and the warned-files set left behind.
RECURSIVE getTagsFromFilesOrb(_, _, _, _, _)
getTagsFromFilesOrb(fnames, cache, warned, fs, mt) ==
    IF fnames = <<>> THEN [tags |-> <<>>, cache |-> cache, warned |-> warned]
    ELSE LET fname == Head(fnames)
         IN IF GetMtime(fname, mt) < 0
            \* os.Stat failed: warn once, skip the file
            THEN getTagsFromFilesOrb(Tail(fnames), cache, warned \cup {fname}, fs, mt)
            ELSE LET tg == GetTags(fname, GetRelFname(fname), cache, fs, mt)
                     rest == getTagsFromFilesOrb(Tail(fnames), tg.cache, warned, fs, mt)
                 IN [rest EXCEPT !.tags = (IF tg.err THEN <<>> ELSE tg.data) \o @]

\* The cache key of an outline: the chat names joined, the other names joined
\* and the budget (the names of the universe hold no separator, so the three
\* parts determine the key and the key them).
MapCacheKey(chatFnames, otherFnames, maxMapTokens) ==
    <<chatFnames, otherFnames, maxMapTokens>>

\* GetRankedTagsMap of package orb: a cached outline is returned when the
\* refresh policy and forceRefresh allow it; otherwise the tags are
\* gathered and the function returns "" before ranking, rendering or storing.
GetRankedTagsMapOrb(chatFnames, otherFnames, maxMapTokens, forceRefresh, refresh, mapCache, cache, warned, fs, mt) ==
    LET cacheKey == MapCacheKey(chatFnames, otherFnames, maxMapTokens)
        allFnames == uniqueElements(chatFnames, otherFnames)
        got == getTagsFromFilesOrb(allFnames, cache, warned, fs, mt)
    IN IF refresh # "always" /\ ~forceRefresh /\ cacheKey \in DOMAIN mapCache
       THEN [result |-> mapCache[cacheKey], recomputed |-> FALSE, key |-> cacheKey,
             mapCache |-> mapCache, cache |-> cache, warned |-> warned]
       ELSE [result |-> EmptyText, recomputed |-> TRUE, key |-> cacheKey,
             mapCache |-> mapCache, cache |-> got.cache, warned |-> got.warned]

\* toTree of package orb: dummyTag := Tag{Name: "____dummy____"}
dummyTag == OrbTag("____dummy____", "", 0, "", "")

\* append(tags, dummyTag) where tags is the slice T[:n] of the caller's
\* list T: the caller's list afterwards.  The slice shares the array of T,
\* so with n < len(T) the appended tag is written over T[n] (counted from
\* 0); with n = len(T) it lands beyond the caller's length.
AppendInPlace(T, n, t) == IF n < Len(T) THEN [T EXCEPT ![n + 1] = t] ELSE T

\* The loop of toTree (package orb) from position i of tagsWithDummy on:
\* output is the list of blocks written, one per flushed file, each with
\* the file name and the lines of interest handed to renderTree.
RECURSIVE toTreeOrbLoop(_, _, _, _, _, _, _)
toTreeOrbLoop(tags, i, curFname, loi, loiNil, output, chatRelSet) ==
    IF i > Len(tags) THEN output
    ELSE LET tag == tags[i]
             flushed == IF curFname # "" /\ ~loiNil
                        THEN Append(output, [file |-> curFname, lines |-> loi])
                        ELSE output
         IN IF tag.Name \in chatRelSet
            THEN toTreeOrbLoop(tags, i + 1, curFname, loi, loiNil, output, chatRelSet)
            ELSE IF tag.Name # curFname
            THEN IF tag.Name = dummyTag.Name THEN flushed
                 ELSE toTreeOrbLoop(tags, i + 1, tag.Name, <<tag.Line>>, FALSE, flushed,
                                    chatRelSet)
            ELSE toTreeOrbLoop(tags, i + 1, curFname,
                               IF loiNil THEN loi ELSE Append(loi, tag.Line), loiNil,
                               output, chatRelSet)

\* toTree of package orb on the slice T[:n]: the blocks of the outline and
\* the caller's list T as the call leaves it.
toTreeOrb(T, n, chatFnames) ==
    IF n = 0 THEN [tree |-> <<>>, T |-> T]
    ELSE [tree |-> toTreeOrbLoop(SubSeq(T, 1, n) \o <<dummyTag>>, 1, "", <<>>, TRUE, <<>>,
                                 {GetRelFname(c) : c \in Range(chatFnames)}),
          T |-> AppendInPlace(T, n, dummyTag)]

(***************************************************************************)
(* The state.                                                              *)
(***************************************************************************)
VARIABLES
    files,       \* the file system: the bytes of every file of the repository
    mtime,       \* the file system: the modification time of every file
    cfg,         \* the configuration fields of the RepoMap
    LastMap,     \* RepoMap.LastMap
    ret,         \* the last call of GenerateRepoMap: its arguments and what it produced
    rk,          \* one evaluation of the ranking: its inputs and what it computed
    TagsCache,   \* orb: RepoMap.TagsCache
    MapCache,    \* orb: RepoMap.MapCache
    WarnedFiles, \* orb: RepoMap.WarnedFiles
    orb,         \* orb: the last operation and what it returned
    options,     \* the options NewRepoMap was called with (functional options)
    qc,          \* one run of GetTagsFromQueryCapture: the captures and the tags made
    ue,          \* one call of uniqueElements: its slices and what it returned
    bs,          \* orb: the budget search of GetRankedTagsMap: its list, bounds and best outline
    stub         \* orb: the CacheStub, its lock, and the goroutines that call Get and Set

vars ==
    <<files, mtime, cfg, LastMap, ret, rk, TagsCache, MapCache, WarnedFiles, orb, options,
      qc, ue, bs, stub>>

\* The record of a call of GenerateRepoMap.
Call(chatFiles, otherFiles, mentionedFnames, mentionedIdents, forceRefresh, fail, budget, allTags, warnings, finalTags, filesListing, result) ==
    [called |-> TRUE, chatFiles |-> chatFiles, otherFiles |-> otherFiles,
     mentionedFnames |-> mentionedFnames, mentionedIdents |-> mentionedIdents,
     forceRefresh |-> forceRefresh, fail |-> fail, budget |-> budget,
     allTags |-> allTags, warnings |-> warnings,
     finalTags |-> finalTags, filesListing |-> filesListing, result |-> result]

NoFail == [read |-> {}, render |-> {}]

NoCall == [called |-> FALSE, chatFiles |-> <<>>, otherFiles |-> <<>>,
           mentionedFnames |-> {}, mentionedIdents |-> {}, forceRefresh |-> FALSE,
           fail |-> NoFail, budget |-> 0, allTags |-> <<>>, warnings |-> {},
           finalTags |-> <<>>,
           filesListing |-> EmptyText, result |-> EmptyText]

\* Variant of RepoMapDisabled under which no budget disables the map.
RepoMapNeverDisabled(c) == FALSE

\* r.MaxMapTokens <= 0: the repo map is disabled.
RepoMapDisabled(c) == c.MaxMapTokens <= 0

\* GenerateRepoMap(chatFiles, otherFiles, mentionedFnames, mentionedIdents, forceRefresh)
GenerateRepoMap(chatFiles, otherFiles, mentionedFnames, mentionedIdents, forceRefresh, fail, noise) ==
    IF RepoMapDisabled(cfg)
    THEN /\ ret' = Call(chatFiles, otherFiles, mentionedFnames, mentionedIdents,
                        forceRefresh, fail, 0, <<>>, {}, <<>>, EmptyText, EmptyText)
         /\ UNCHANGED <<files, mtime, cfg, LastMap, rk, TagsCache, MapCache, WarnedFiles, orb, options, qc, ue, bs, stub>>
    ELSE LET maxMapTokens == EffectiveBudget(cfg, chatFiles)
         IN \E m \in {GetRankedTagsMap(chatFiles, otherFiles, maxMapTokens, mentionedFnames,
                                       mentionedIdents, forceRefresh, files, fail, noise)} :
             LET filesListing == m.bestTree
                 repoContent == IF cfg.RepoContentPx # EmptyText
                                THEN ExpandPrefix(cfg.RepoContentPx, chatFiles)
                                ELSE EmptyText
                 result == IF filesListing = EmptyText THEN EmptyText
                           ELSE Concat(repoContent, filesListing)
             IN /\ ret' = Call(chatFiles, otherFiles, mentionedFnames, mentionedIdents,
                               forceRefresh, fail, maxMapTokens, m.allTags,
                               getTagsFromFilesWarnings(
                                   uniqueElements(chatFiles, otherFiles), files),
                               m.finalTags, filesListing, result)
                /\ LastMap' = IF m.stored THEN m.bestTree ELSE LastMap
                /\ UNCHANGED <<files, mtime, cfg, rk, TagsCache, MapCache, WarnedFiles, orb, options, qc, ue, bs, stub>>

(***************************************************************************)
(* The inputs of the model.                                                *)
(***************************************************************************)
\* largest deviation of a computed file rank from the fixed point, in 1 / PRScale
MaxNoise == 1

\* The rank of at most one file deviates.
NoiseMenu == {n \in [Files -> 0..MaxNoise] : Cardinality({f \in Files : n[f] # 0}) <= 1}

ZeroNoise == [f \in Files |-> 0]

\* File contents: an empty file; one over-long definition of Foo; a reference
\* to Foo and a definition of _bar; a definition of Foo and a reference to
\* _bar; a definition of _bar and two references to Foo; a definition of _bar.
ContentEmpty == <<>>
ContentDefFoo == <<SourceLine("def", "Foo", 120)>>
ContentRefFoo == <<SourceLine("ref", "Foo", 20), SourceLine("def", "_bar", 30)>>
ContentFooUsesBar == <<SourceLine("def", "Foo", 40), SourceLine("ref", "_bar", 20)>>
ContentBarUsesFoo ==
    <<SourceLine("def", "_bar", 30), SourceLine("ref", "Foo", 20), SourceLine("ref", "Foo", 20)>>
ContentDefBar == <<SourceLine("def", "_bar", 30)>>

\* The repository whose files, in the order of FileOrder, hold the contents given.
Repo(contents) == [f \in Files |-> contents[Pos(FileOrder, f)]]

\* The repositories: Foo defined twice and referenced from a third file;
\* two files that refer to each other; definitions without any reference;
\* nothing to extract; a definer, a referencer and a second definer; one
\* file that both defines and is referenced; two definers of one symbol
\* and no reference at all; a file that defines one symbol twice and
\* another once, both referred to by a third file, one of them twice and
\* defined in all three files.
RepoMenu ==
    { Repo(<<ContentDefFoo, ContentDefFoo, ContentRefFoo>>),
      Repo(<<ContentFooUsesBar, ContentBarUsesFoo, ContentEmpty>>),
      Repo(<<ContentDefFoo, ContentDefBar, ContentEmpty>>),
      Repo(<<ContentEmpty, ContentEmpty, ContentEmpty>>),
      Repo(<<ContentFooUsesBar, ContentRefFoo, ContentDefFoo>>),
      Repo(<<ContentRefFoo, ContentDefFoo, ContentDefBar>>),
      Repo(<<ContentDefFoo, ContentDefFoo, ContentDefBar>>),
      Repo(<<ContentDefBar,
             <<SourceLine("def", "Foo", 40), SourceLine("def", "_bar", 30),
               SourceLine("def", "Foo", 40)>>,
             <<SourceLine("ref", "Foo", 20), SourceLine("ref", "_bar", 20),
               SourceLine("ref", "_bar", 20), SourceLine("def", "_bar", 30)>>>>) }

\* The chat lists: at most one file.
ChatMenu == {<<>>} \cup {<<AbsPath(f)>> : f \in Files}

\* The repo list: every file of the repository.
AllFiles == [i \in 1..Len(FileOrder) |-> AbsPath(FileOrder[i])]

\* The content prefixes: none, and one whose line is longer than a tree line
\* may be and holds the placeholder.
PrefixMenu == {EmptyText, <<Line("prefix{other}", "", 0, 130), EmptyLine>>}

\* defaultMaxCtxWindow, defaultMaxCtxFileMultiplier, defaultMaxMapTokens
defaultMaxCtxWindow == 16000
defaultMaxCtxFileMultiplier == 8
defaultMaxMapTokens == 1024

CfgMenu ==
    [Refresh : {"auto"},
     MaxMapTokens : {0, 1, defaultMaxMapTokens},
     MaxCtxWindow : {defaultMaxCtxWindow},
     MapMulNoFiles : {defaultMaxCtxFileMultiplier},
     RepoContentPx : PrefixMenu]

DefaultCfg ==
    [Refresh |-> "auto", MaxMapTokens |-> defaultMaxMapTokens,
     MaxCtxWindow |-> defaultMaxCtxWindow, MapMulNoFiles |-> defaultMaxCtxFileMultiplier,
     RepoContentPx |-> EmptyText]

\* Every file exists and was last written at time 0.
FreshMtime == [f \in Files |-> 0]

NoRank == [done |-> FALSE, mentionedFnames |-> {}, mentionedIdents |-> {},
           noise |-> ZeroNoise, allTags |-> <<>>, nodes |-> {}, references |-> <<>>,
           defines |-> <<>>, identifiers |-> {}, lines |-> <<>>, weight |-> <<>>,
           pr |-> <<>>, prPlain |-> <<>>, edgeRanks |-> <<>>, edgeRanksPlain |-> <<>>,
           rankedTags |-> <<>>, rankedTagsPlain |-> <<>>]

NoOp == [op |-> "", fname |-> <<"", "">>, key |-> <<>>, forceRefresh |-> FALSE,
         had |-> FALSE, hit |-> FALSE, err |-> FALSE, data |-> <<>>,
         recomputed |-> FALSE, result |-> EmptyText]

\* NewRepoMap called without options
NoOptions == <<>>

GermIdle == LastMap = EmptyText /\ ret = NoCall /\ options = NoOptions
RankIdle == rk = NoRank
NoCaptures == [done |-> FALSE, captures |-> <<>>, rejected |-> {}, tags |-> <<>>]

CaptureIdle == qc = NoCaptures

NoUnique == [done |-> FALSE, slice1 |-> <<>>, slice2 |-> <<>>, isNil |-> TRUE, result |-> <<>>]

UniqueIdle == ue = NoUnique

NoSearch == [started |-> FALSE, done |-> FALSE, chatFnames |-> <<>>, maxMapTokens |-> 0,
             ranked |-> <<>>, finalTags |-> <<>>, lb |-> 0, ub |-> 0, middle |-> 0,
             bestTree |-> <<>>, bestTreeTokens |-> 0, broke |-> FALSE, calls |-> 0,
             rendered |-> 0, tree |-> <<>>, numTokens |-> 0]

SearchIdle == bs = NoSearch

\* number of goroutines that use the cache at the same time
NumProcs == 3

Procs == 1..NumProcs

\* no goroutine holds the write lock
NoWriter == 0

\* NewCacheStub: an empty store and an unlocked sync.RWMutex; no goroutine
\* has called yet.
NewCacheStub ==
    [store |-> NoEntries, readers |-> {}, writer |-> NoWriter,
     pc |-> [p \in Procs |-> "idle"],
     op |-> [p \in Procs |-> [kind |-> "", key |-> <<"", "">>, value |-> 0]],
     got |-> [p \in Procs |-> [ok |-> FALSE, val |-> 0]]]

StubIdle == stub = NewCacheStub

OrbIdle == TagsCache = NoEntries /\ MapCache = NoEntries /\ WarnedFiles = {} /\ orb = NoOp

(***************************************************************************)
(* Spec: calls of GenerateRepoMap on a repository that does not change.    *)
(***************************************************************************)
Init ==
    /\ files \in RepoMenu
    /\ mtime = FreshMtime
    /\ cfg \in CfgMenu
    /\ GermIdle /\ RankIdle /\ OrbIdle /\ CaptureIdle /\ UniqueIdle /\ SearchIdle /\ StubIdle

Generate ==
    \E chatFiles \in ChatMenu, mentionedIdents \in SUBSET {"Foo"}, noise \in NoiseMenu :
        GenerateRepoMap(chatFiles, AllFiles, {}, mentionedIdents, FALSE, NoFail, noise)

Next == Generate

Spec == Init /\ [][Next]_vars

(***************************************************************************)
(* SpecFail: calls of GenerateRepoMap during which a file that was tagged  *)
(* cannot be read again, or cannot be rendered, when the tree is built.    *)
(***************************************************************************)
\* At most one file fails, in one of the two ways.
FailMenu ==
    {NoFail} \cup {[read |-> {f}, render |-> {}] : f \in Files}
             \cup {[read |-> {}, render |-> {f}] : f \in Files}

InitFail ==
    /\ files \in RepoMenu
    /\ mtime = FreshMtime
    /\ cfg = DefaultCfg
    /\ GermIdle /\ RankIdle /\ OrbIdle /\ CaptureIdle /\ UniqueIdle /\ SearchIdle /\ StubIdle

GenerateUnderFailure ==
    \E chatFiles \in ChatMenu, fail \in FailMenu :
        GenerateRepoMap(chatFiles, AllFiles, {}, {}, FALSE, fail, ZeroNoise)

NextFail == GenerateUnderFailure

SpecFail == InitFail /\ [][NextFail]_vars

(***************************************************************************)
(* SpecRank: one evaluation of the ranking of getRankedTagsByPageRank on   *)
(* the tags of a repository, for every mention set; next to each result    *)
(* the state keeps the result for the empty mention set.                   *)
(***************************************************************************)
InitRank ==
    /\ files \in RepoMenu
    /\ mtime = FreshMtime
    /\ cfg = DefaultCfg
    /\ rk \in {[NoRank EXCEPT !.mentionedFnames = mf, !.mentionedIdents = mi, !.noise = n] :
                 mf \in SUBSET Files, mi \in SUBSET Symbols, n \in NoiseMenu}
    /\ GermIdle /\ OrbIdle /\ CaptureIdle /\ UniqueIdle /\ SearchIdle /\ StubIdle

Rank ==
    /\ ~rk.done
    /\ LET allTags == getTagsFromFiles(AllFiles, files)
           m == buildReferenceMaps(allTags)
           g == buildFileGraph(m.defines, m.references, m.identifiers, rk.mentionedIdents)
       IN rk' = [rk EXCEPT
                   !.done = TRUE,
                   !.allTags = allTags,
                   !.identifiers = m.identifiers,
                   !.nodes = g.nodes,
                   !.lines = g.lines,
                   !.weight = g.weight,
                   !.references = m.references,
                   !.defines = m.defines,
                   !.pr = FileRanks(g, Personalization(g.nodes, rk.mentionedFnames), rk.noise),
                   !.prPlain = FileRanks(g, Personalization(g.nodes, {}), rk.noise),
                   !.edgeRanks = EdgeRanks(allTags, rk.mentionedFnames, rk.mentionedIdents,
                                           rk.noise),
                   !.edgeRanksPlain = EdgeRanks(allTags, rk.mentionedFnames, {}, rk.noise),
                   !.rankedTags = getRankedTagsByPageRank(allTags, <<>>, rk.mentionedFnames,
                                                          rk.mentionedIdents, rk.noise),
                   !.rankedTagsPlain = getRankedTagsByPageRank(allTags, <<>>,
                                                          rk.mentionedFnames, {}, rk.noise)]
    /\ UNCHANGED <<files, mtime, cfg, LastMap, ret, TagsCache, MapCache, WarnedFiles, orb, options, qc, ue, bs, stub>>

NextRank == Rank

SpecRank == InitRank /\ [][NextRank]_vars

(***************************************************************************)
(* SpecOrb: package orb.  A file is written, touched or deleted between    *)
(* lookups of its tags and calls of GetRankedTagsMap.                      *)
(***************************************************************************)
\* latest modification time of the model, in seconds
MaxMtime == 2

\* The files that change.
Writable == {"a.go"}

OrbContentMenu == {ContentEmpty, ContentDefFoo, ContentRefFoo}

OrbCfgMenu == {[DefaultCfg EXCEPT !.Refresh = r] : r \in {"auto", "always"}}

InitOrb ==
    /\ files = Repo(<<ContentDefFoo, ContentDefFoo, ContentRefFoo>>)
    /\ mtime = FreshMtime
    /\ cfg \in OrbCfgMenu
    /\ GermIdle /\ RankIdle /\ OrbIdle /\ CaptureIdle /\ UniqueIdle /\ SearchIdle /\ StubIdle

\* The file is written with the content given; afterwards its modification
\* time is t (a write within the same second leaves the time as it was).
ModifyFile(f, content, t) ==
    /\ files' = [files EXCEPT ![f] = content]
    /\ mtime' = [mtime EXCEPT ![f] = t]
    /\ orb' = [NoOp EXCEPT !.op = "ModifyFile", !.fname = AbsPath(f)]
    /\ UNCHANGED <<cfg, LastMap, ret, rk, TagsCache, MapCache, WarnedFiles, options, qc, ue, bs, stub>>

\* The file is removed: os.Stat fails on it.
DeleteFile(f) ==
    /\ mtime[f] >= 0
    /\ files' = [files EXCEPT ![f] = ContentEmpty]
    /\ mtime' = [mtime EXCEPT ![f] = -1]
    /\ orb' = [NoOp EXCEPT !.op = "DeleteFile", !.fname = AbsPath(f)]
    /\ UNCHANGED <<cfg, LastMap, ret, rk, TagsCache, MapCache, WarnedFiles, options, qc, ue, bs, stub>>

\* r.GetTags(fname, relFname)
LookupTags(f) ==
    LET fname == AbsPath(f)
        got == GetTags(fname, f, TagsCache, files, mtime)
    IN /\ TagsCache' = got.cache
       /\ orb' = [NoOp EXCEPT !.op = "GetTags", !.fname = fname,
                              !.had = fname \in DOMAIN TagsCache, !.hit = got.hit,
                              !.err = got.err, !.data = got.data]
       /\ UNCHANGED <<files, mtime, cfg, LastMap, ret, rk, MapCache, WarnedFiles, options, qc, ue, bs, stub>>

\* r.GetRankedTagsMap(chatFnames, otherFnames, maxMapTokens, ..., forceRefresh)
CallGetRankedTagsMap(chatFnames, otherFnames, maxMapTokens, forceRefresh) ==
    LET got == GetRankedTagsMapOrb(chatFnames, otherFnames, maxMapTokens, forceRefresh,
                                   cfg.Refresh, MapCache, TagsCache, WarnedFiles, files, mtime)
    IN /\ MapCache' = got.mapCache
       /\ TagsCache' = got.cache
       /\ WarnedFiles' = got.warned
       /\ orb' = [NoOp EXCEPT !.op = "GetRankedTagsMap", !.key = got.key,
                              !.forceRefresh = forceRefresh,
                              !.recomputed = got.recomputed, !.result = got.result]
       /\ UNCHANGED <<files, mtime, cfg, LastMap, ret, rk, options, qc, ue, bs, stub>>

Modify == \E f \in Writable, content \in OrbContentMenu, t \in 0..MaxMtime :
              ModifyFile(f, content, t)
Delete == \E f \in Writable : DeleteFile(f)
Lookup == \E f \in Writable : LookupTags(f)
OrbGenerate ==
    \E chatFnames \in {<<>>, <<AbsPath("a.go")>>}, forceRefresh \in BOOLEAN :
        CallGetRankedTagsMap(chatFnames, AllFiles, EffectiveBudget(cfg, chatFnames),
                             forceRefresh)

NextOrb == Modify \/ Delete \/ Lookup \/ OrbGenerate

SpecOrb == InitOrb /\ [][NextOrb]_vars

(***************************************************************************)
(* SpecBudget: calls of GenerateRepoMap under every combination of the     *)
(* three budget settings, on one repository.                               *)
(***************************************************************************)
BudgetCfgMenu ==
    [Refresh : {"auto"},
     MaxMapTokens : {-1, 0, 1, defaultMaxMapTokens},
     MaxCtxWindow : {0, 2000, padding, 6000, defaultMaxCtxWindow},
     MapMulNoFiles : {-1, 0, 1, defaultMaxCtxFileMultiplier},
     RepoContentPx : {EmptyText}]

InitBudget ==
    /\ files = Repo(<<ContentFooUsesBar, ContentBarUsesFoo, ContentEmpty>>)
    /\ mtime = FreshMtime
    /\ cfg \in BudgetCfgMenu
    /\ GermIdle /\ RankIdle /\ OrbIdle /\ CaptureIdle /\ UniqueIdle /\ SearchIdle /\ StubIdle

GenerateUnderBudget ==
    \E chatFiles \in ChatMenu :
        GenerateRepoMap(chatFiles, AllFiles, {}, {}, FALSE, NoFail, ZeroNoise)

NextBudget == GenerateUnderBudget

SpecBudget == InitBudget /\ [][NextBudget]_vars

(***************************************************************************)
(* SpecToggle: between calls of GenerateRepoMap the owner of the RepoMap   *)
(* writes its exported field MaxMapTokens.                                 *)
(***************************************************************************)
InitToggle ==
    /\ files = Repo(<<ContentFooUsesBar, ContentBarUsesFoo, ContentEmpty>>)
    /\ mtime = FreshMtime
    /\ cfg = DefaultCfg
    /\ GermIdle /\ RankIdle /\ OrbIdle /\ CaptureIdle /\ UniqueIdle /\ SearchIdle /\ StubIdle

\* r.MaxMapTokens = v
SetMaxMapTokens(v) ==
    /\ cfg' = [cfg EXCEPT !.MaxMapTokens = v]
    /\ UNCHANGED <<files, mtime, LastMap, ret, rk, TagsCache, MapCache, WarnedFiles, orb, options, qc, ue, bs, stub>>

SetBudget == \E v \in {-1, 0, 1, defaultMaxMapTokens} : SetMaxMapTokens(v)

GenerateToggled ==
    \E chatFiles \in ChatMenu, mentionedIdents \in SUBSET {"Foo"}, forceRefresh \in BOOLEAN :
        GenerateRepoMap(chatFiles, AllFiles, {}, mentionedIdents, forceRefresh, NoFail,
                        ZeroNoise)

NextToggle == SetBudget \/ GenerateToggled

SpecToggle == InitToggle /\ [][NextToggle]_vars

(***************************************************************************)
(* SpecCancel: calls of GenerateRepoMap during which the caller asks for   *)
(* cancellation.  GenerateRepoMap takes no context or token, and no loop   *)
(* under it reads one: the request is part of the environment of the call  *)
(* and is recorded with it.                                                *)
(***************************************************************************)
\* The units of work during which the request arrives.
CancelPoints == {"extraction", "ranking", "rendering"}

\* No file fails; cancellation is not asked for, or asked for at one point.
CancelMenu ==
    {NoFail} \cup {[read |-> {}, render |-> {}, cancel |-> p] : p \in CancelPoints}

CancelRequested(r) == "cancel" \in DOMAIN r.fail

\* What a call of GenerateRepoMap yields: its only result is a string.
Outcome(r) == IF r.result = EmptyText THEN "empty" ELSE "outline"

InitCancel ==
    /\ files \in RepoMenu
    /\ mtime = FreshMtime
    /\ cfg = DefaultCfg
    /\ GermIdle /\ RankIdle /\ OrbIdle /\ CaptureIdle /\ UniqueIdle /\ SearchIdle /\ StubIdle

GenerateWhileCancelled ==
    \E chatFiles \in ChatMenu, mentionedIdents \in SUBSET {"Foo"}, env \in CancelMenu :
        GenerateRepoMap(chatFiles, AllFiles, {}, mentionedIdents, FALSE, env, ZeroNoise)

NextCancel == GenerateWhileCancelled

SpecCancel == InitCancel /\ [][NextCancel]_vars

(***************************************************************************)
(* SpecSingle: calls of GenerateRepoMap on repositories in which one file  *)
(* defines Foo, once or twice, and the other files only refer to it.       *)
(***************************************************************************)
ContentDefFooTwice == <<SourceLine("def", "Foo", 40), SourceLine("def", "Foo", 60)>>
ContentRefFooOnce == <<SourceLine("ref", "Foo", 20)>>
ContentRefFooTwice == <<SourceLine("ref", "Foo", 20), SourceLine("ref", "Foo", 25)>>

\* The defining file of a repository with one defining file.
Definer(fs) == CHOOSE f \in Files : \E i \in 1..Len(fs[f]) : fs[f][i].kind = TagKindDef

SingleDefinerMenu ==
    {fs \in [Files -> {ContentEmpty, ContentDefFoo, ContentDefFooTwice, ContentRefFooOnce,
                       ContentRefFooTwice}] :
        /\ Cardinality({f \in Files : fs[f] \in {ContentDefFoo, ContentDefFooTwice}}) = 1
        /\ \E f \in Files : fs[f] \in {ContentRefFooOnce, ContentRefFooTwice}}

InitSingle ==
    /\ files \in SingleDefinerMenu
    /\ mtime = FreshMtime
    /\ cfg = DefaultCfg
    /\ GermIdle /\ RankIdle /\ OrbIdle /\ CaptureIdle /\ UniqueIdle /\ SearchIdle /\ StubIdle

GenerateSingle ==
    \E chatFiles \in ChatMenu, noise \in NoiseMenu :
        GenerateRepoMap(chatFiles, AllFiles, {}, {}, FALSE, NoFail, noise)

NextSingle == GenerateSingle

SpecSingle == InitSingle /\ [][NextSingle]_vars

(***************************************************************************)
(* SpecOptions: package germ with functional options (src/unnamed/         *)
(* part_001).  NewRepoMap sets the defaults and applies the options in the *)
(* order given; the RepoMap then serves calls of Generate.                 *)
(***************************************************************************)
\* WithMaxContextWindow(value): o.maxMapTokens = value
WithMaxContextWindow(value, o) == [o EXCEPT !.MaxMapTokens = value]

\* WithMapMulNoFiles(value): o.maxMapTokens = value
WithMapMulNoFiles(value, o) == [o EXCEPT !.MaxMapTokens = value]

\* WithMaxTokens(value): o.maxMapTokens = value
WithMaxTokens(value, o) == [o EXCEPT !.MaxMapTokens = value]

Option(name, value) == [name |-> name, value |-> value]

\* o(rm)
ApplyOption(opt, rm) ==
    CASE opt.name = "WithMaxContextWindow" -> WithMaxContextWindow(opt.value, rm)
      [] opt.name = "WithMapMulNoFiles" -> WithMapMulNoFiles(opt.value, rm)
      [] opt.name = "WithMaxTokens" -> WithMaxTokens(opt.value, rm)

\* for _, o := range options { o(rm) }
RECURSIVE ApplyOptions(_, _)
ApplyOptions(opts, rm) ==
    IF opts = <<>> THEN rm ELSE ApplyOptions(Tail(opts), ApplyOption(Head(opts), rm))

\* NewRepoMap(root, mainModel, options...): the budget settings of the new RepoMap.
NewRepoMap(opts) == ApplyOptions(opts, DefaultCfg)

\* The option lists: none, one option, two options.
OptionMenu ==
    LET one == {Option(n, v) : n \in {"WithMaxContextWindow", "WithMapMulNoFiles",
                                      "WithMaxTokens"},
                               v \in {2, 2000}}
    IN {NoOptions} \cup {<<o>> : o \in one} \cup {<<o1, o2>> : o1 \in one, o2 \in one}

InitOptions ==
    /\ files = Repo(<<ContentFooUsesBar, ContentBarUsesFoo, ContentEmpty>>)
    /\ mtime = FreshMtime
    /\ options \in OptionMenu
    /\ cfg = NewRepoMap(options)
    /\ LastMap = EmptyText /\ ret = NoCall
    /\ RankIdle /\ OrbIdle /\ CaptureIdle /\ UniqueIdle /\ SearchIdle /\ StubIdle

GenerateWithOptions ==
    \E chatFiles \in ChatMenu :
        GenerateRepoMap(chatFiles, AllFiles, {}, {}, FALSE, NoFail, ZeroNoise)

NextOptions == GenerateWithOptions

SpecOptions == InitOptions /\ [][NextOptions]_vars

(***************************************************************************)
(* SpecCapture: GetTagsFromQueryCapture on the captures of one query.  A   *)
(* capture is the label of its capture name, split at the dots, the text   *)
(* of the captured node and the row the node starts on, counted from 0.    *)
(* The filter is the set of names it rejects; nil rejects none.            *)
(***************************************************************************)
\* most captures of a query in the model
MaxCaptures == 2

Capture(label, text, row) == [label |-> label, text |-> text, row |-> row]

\* strings.HasPrefix(tag, "name.definition.") and "name.reference.": the
\* label has the two components and a dot after them.
HasLabelPrefix(label, kind) ==
    Len(label) >= 3 /\ label[1] = "name" /\ label[2] = kind

\* Variant of GetTagsFromQueryCapture that counts the lines from 1.
RECURSIVE GetTagsFromQueryCaptureFromOne(_, _, _, _)
GetTagsFromQueryCaptureFromOne(relFname, fname, captures, rejected) ==
    IF captures = <<>> THEN <<>>
    ELSE LET c == Head(captures)
             rest == GetTagsFromQueryCaptureFromOne(relFname, fname, Tail(captures), rejected)
         IN IF c.text \in rejected THEN rest
            ELSE IF HasLabelPrefix(c.label, "definition")
            THEN <<Tag(relFname, fname, c.row + 1, c.text, TagKindDef)>> \o rest
            ELSE IF HasLabelPrefix(c.label, "reference")
            THEN <<Tag(relFname, fname, c.row + 1, c.text, TagKindRef)>> \o rest
            ELSE rest

\* GetTagsFromQueryCapture: the loop over captures.Next().
RECURSIVE GetTagsFromQueryCapture(_, _, _, _)
GetTagsFromQueryCapture(relFname, fname, captures, rejected) ==
    IF captures = <<>> THEN <<>>
    ELSE LET c == Head(captures)
             tag == c.label
             row == c.row
             name == c.text
             rest == GetTagsFromQueryCapture(relFname, fname, Tail(captures), rejected)
         IN IF name \in rejected THEN rest
            ELSE IF HasLabelPrefix(tag, "definition")
            THEN <<Tag(relFname, fname, row, name, TagKindDef)>> \o rest
            ELSE IF HasLabelPrefix(tag, "reference")
            THEN <<Tag(relFname, fname, row, name, TagKindRef)>> \o rest
            ELSE rest

\* The capture names of the queries: @name.definition.function,
\* @name.reference.call, @definition.function, @name.definition, @doc.
LabelMenu ==
    {<<"name", "definition", "function">>, <<"name", "reference", "call">>,
     <<"definition", "function">>, <<"name", "definition">>, <<"doc">>}

\* A capture on the first row or on the tenth, of a long or a short name
\* or of a node without text.
CaptureMenu == {Capture(l, t, r) : l \in LabelMenu, t \in {"Hello", "fn", ""}, r \in {0, 9}}

\* The captures of a query come in source order.
CapturesMenu ==
    {cs \in UNION {[1..n -> CaptureMenu] : n \in 0..MaxCaptures} :
        \A i \in 1..(Len(cs) - 1) : cs[i].row <= cs[i + 1].row}

InitCapture ==
    /\ files = Repo(<<ContentDefFoo, ContentDefBar, ContentEmpty>>)
    /\ mtime = FreshMtime
    /\ cfg = DefaultCfg
    /\ qc \in {[NoCaptures EXCEPT !.captures = cs, !.rejected = rj] :
                 cs \in CapturesMenu, rj \in {{}, {"fn"}}}
    /\ GermIdle /\ RankIdle /\ OrbIdle /\ UniqueIdle /\ SearchIdle /\ StubIdle

\* GetTagsFromQueryCapture(relFname, fname, q, tree, sourceCode, filter)
RunQueryCapture ==
    /\ ~qc.done
    /\ qc' = [qc EXCEPT !.done = TRUE,
                        !.tags = GetTagsFromQueryCapture("a.go", AbsPath("a.go"),
                                                         qc.captures, qc.rejected)]
    /\ UNCHANGED <<files, mtime, cfg, LastMap, ret, rk, TagsCache, MapCache, WarnedFiles,
                   orb, options, ue, bs, stub>>

NextCapture == RunQueryCapture

SpecCapture == InitCapture /\ [][NextCapture]_vars


(***************************************************************************)
(* SpecUnique: one call of uniqueElements on two slices of file names,     *)
(* which may repeat a name within a slice and across the slices.           *)
(***************************************************************************)
\* longest slice handed to uniqueElements
MaxSliceLen == 2

SliceMenu == UNION {[1..n -> {AbsPath(f) : f \in Files}] : n \in 0..MaxSliceLen}

InitUnique ==
    /\ files = Repo(<<ContentDefFoo, ContentDefBar, ContentEmpty>>)
    /\ mtime = FreshMtime
    /\ cfg = DefaultCfg
    /\ ue \in {[NoUnique EXCEPT !.slice1 = s1, !.slice2 = s2] : s1 \in SliceMenu, s2 \in SliceMenu}
    /\ GermIdle /\ RankIdle /\ OrbIdle /\ CaptureIdle /\ SearchIdle /\ StubIdle

\* uniqueElements(slices...): the result starts as the empty, non-nil slice
\* []string{} and grows by append.
CallUniqueElements ==
    /\ ~ue.done
    /\ ue' = [ue EXCEPT !.done = TRUE, !.isNil = FALSE,
                        !.result = uniqueElements(ue.slice1, ue.slice2)]
    /\ UNCHANGED <<files, mtime, cfg, LastMap, ret, rk, TagsCache, MapCache, WarnedFiles,
                   orb, options, qc, bs, stub>>

NextUnique == CallUniqueElements

SpecUnique == InitUnique /\ [][NextUnique]_vars

(***************************************************************************)
(* SpecSearch: the budget search of GetRankedTagsMap (package orb), one    *)
(* step per iteration of its loop.  The estimator behind TokenCount is an  *)
(* interface of the caller: every call may return any count of the menu.   *)
(***************************************************************************)
\* longest of the short ranked lists
MaxTags == 3

\* if middle > 30 { middle = 30 }
InitialMiddle == 30

SearchTagMenu == {OrbTag(f, AbsPath(f), Pos(FileOrder, f), "Foo", "def") : f \in Files}

\* A ranked list longer than the initial middle.
LongList ==
    [i \in 1..(InitialMiddle + 1) |->
        OrbTag(FileOrder[(i % 3) + 1], AbsPath(FileOrder[(i % 3) + 1]), i, "Foo", "def")]

SearchListMenu == UNION {[1..n -> SearchTagMenu] : n \in 0..MaxTags} \cup {LongList}

SearchBudgetMenu == {1, 10}

\* The counts an estimator returns: nothing, within 15 % of the larger
\* budget from below and from above, the budget itself, and far above.
TokenMenu == {0, 9, 10, 11, 30}

InitSearch ==
    /\ files = Repo(<<ContentDefFoo, ContentDefBar, ContentEmpty>>)
    /\ mtime = FreshMtime
    /\ cfg = DefaultCfg
    /\ bs \in {[NoSearch EXCEPT !.ranked = T, !.maxMapTokens = B, !.chatFnames = c] :
                 T \in SearchListMenu, B \in SearchBudgetMenu,
                 c \in {<<>>, <<AbsPath("a.go")>>}}
    /\ GermIdle /\ RankIdle /\ OrbIdle /\ CaptureIdle /\ UniqueIdle /\ StubIdle

\* finalTags := ...; bestTree := ""; lb := 0; ub := len(finalTags); middle
StartSearch ==
    /\ ~bs.started
    /\ bs' = [bs EXCEPT !.started = TRUE, !.finalTags = bs.ranked, !.lb = 0,
                        !.ub = Len(bs.ranked),
                        !.middle = Min(Len(bs.ranked), InitialMiddle)]
    /\ UNCHANGED <<files, mtime, cfg, LastMap, ret, rk, TagsCache, MapCache, WarnedFiles,
                   orb, options, qc, ue, stub>>

\* pctErr < 0.15 with diff := math.Abs(numTokens - maxMapTokens)
WithinTolerance(numTokens, maxMapTokens) ==
    LET diff == IF numTokens >= maxMapTokens THEN numTokens - maxMapTokens
                ELSE maxMapTokens - numTokens
    IN diff * 100 < 15 * maxMapTokens

\* Variant of Narrow that keeps middle inside the interval.
NarrowKeepingMiddle(lb, ub, middle, numTokens, maxMapTokens) ==
    IF numTokens < maxMapTokens THEN [lb |-> middle, ub |-> ub]
    ELSE [lb |-> lb, ub |-> middle]

\* if numTokens < maxMapTokens { lb = middle + 1 } else { ub = middle - 1 }
Narrow(lb, ub, middle, numTokens, maxMapTokens) ==
    IF numTokens < maxMapTokens THEN [lb |-> middle + 1, ub |-> ub]
    ELSE [lb |-> lb, ub |-> middle - 1]

\* one iteration of: for lb <= ub { ... }
SearchStep(numTokens) ==
    /\ bs.started /\ ~bs.done /\ ~bs.broke
    /\ bs.lb <= bs.ub
    /\ LET t == toTreeOrb(bs.finalTags, bs.middle, bs.chatFnames)
           better == (numTokens <= bs.maxMapTokens /\ numTokens > bs.bestTreeTokens)
                     \/ WithinTolerance(numTokens, bs.maxMapTokens)
           brk == WithinTolerance(numTokens, bs.maxMapTokens)
           nw == Narrow(bs.lb, bs.ub, bs.middle, numTokens, bs.maxMapTokens)
           lb == nw.lb
           ub == nw.ub
       IN bs' = [bs EXCEPT !.finalTags = t.T, !.tree = t.tree, !.rendered = bs.middle,
                           !.numTokens = numTokens, !.calls = @ + 1,
                           !.bestTree = IF better THEN t.tree ELSE @,
                           !.bestTreeTokens = IF better THEN numTokens ELSE @,
                           !.broke = brk,
                           !.lb = IF brk THEN @ ELSE lb,
                           !.ub = IF brk THEN @ ELSE ub,
                           !.middle = IF brk THEN @ ELSE (lb + ub) \div 2]
    /\ UNCHANGED <<files, mtime, cfg, LastMap, ret, rk, TagsCache, MapCache, WarnedFiles,
                   orb, options, qc, ue, stub>>

\* after the loop: r.MapCache[cacheKey] = bestTree; return bestTree
SearchReturn ==
    /\ bs.started /\ ~bs.done
    /\ bs.broke \/ bs.lb > bs.ub
    /\ bs' = [bs EXCEPT !.done = TRUE]
    /\ MapCache' = (MapCacheKey(bs.chatFnames, AllFiles, bs.maxMapTokens) :> bs.bestTree)
                       @@ MapCache
    /\ UNCHANGED <<files, mtime, cfg, LastMap, ret, rk, TagsCache, WarnedFiles, orb,
                   options, qc, ue, stub>>

Iterate == \E numTokens \in TokenMenu : SearchStep(numTokens)

NextSearch == StartSearch \/ Iterate \/ SearchReturn

SpecSearch == InitSearch /\ [][NextSearch]_vars

(***************************************************************************)
(* SpecCache: goroutines call Get and Set of one CacheStub, one call each, *)
(* a step per lock operation and per access to the map.  The assignment    *)
(* to the map takes two steps: between them the entry is partial.          *)
(***************************************************************************)
\* what the map holds for a key while an assignment to it is under way
Partial == -1

StubKeys == {AbsPath("a.go"), AbsPath("b.go")}

StubValues == {1, 2}

\* Variant of CanRLock under which a reader does not wait for the writer.
CanRLockAlways(c) == TRUE

\* c.mu.RLock() returns when no goroutine holds the write lock.
CanRLock(c) == c.writer = NoWriter

\* c.mu.Lock() returns when no goroutine holds the lock for reading or writing.
CanLock(c) == c.writer = NoWriter /\ c.readers = {}

InitCache ==
    /\ files = Repo(<<ContentDefFoo, ContentDefBar, ContentEmpty>>)
    /\ mtime = FreshMtime
    /\ cfg = DefaultCfg
    /\ stub = NewCacheStub
    /\ GermIdle /\ RankIdle /\ OrbIdle /\ CaptureIdle /\ UniqueIdle /\ SearchIdle

StubFrame ==
    UNCHANGED <<files, mtime, cfg, LastMap, ret, rk, TagsCache, MapCache, WarnedFiles, orb,
                options, qc, ue, bs>>

\* a goroutine calls c.Get(key)
CallGet(p, key) ==
    /\ stub.pc[p] = "idle"
    /\ stub' = [stub EXCEPT !.pc[p] = "rlock",
                            !.op[p] = [kind |-> "Get", key |-> key, value |-> 0]]
    /\ StubFrame

\* a goroutine calls c.Set(key, value)
CallSet(p, key, value) ==
    /\ stub.pc[p] = "idle"
    /\ stub' = [stub EXCEPT !.pc[p] = "lock",
                            !.op[p] = [kind |-> "Set", key |-> key, value |-> value]]
    /\ StubFrame

\* Get: c.mu.RLock()
RLock(p) ==
    /\ stub.pc[p] = "rlock"
    /\ CanRLock(stub)
    /\ stub' = [stub EXCEPT !.pc[p] = "read", !.readers = @ \cup {p}]
    /\ StubFrame

\* Get: val, ok := c.store[key]
ReadStore(p) ==
    /\ stub.pc[p] = "read"
    /\ LET key == stub.op[p].key
       IN stub' = [stub EXCEPT !.pc[p] = "runlock",
                               !.got[p] = IF key \in DOMAIN stub.store
                                          THEN [ok |-> TRUE, val |-> stub.store[key]]
                                          ELSE [ok |-> FALSE, val |-> 0]]
    /\ StubFrame

\* Get: defer c.mu.RUnlock(); return val, ok
RUnlock(p) ==
    /\ stub.pc[p] = "runlock"
    /\ stub' = [stub EXCEPT !.pc[p] = "done", !.readers = @ \ {p}]
    /\ StubFrame

\* Set: c.mu.Lock()
Lock(p) ==
    /\ stub.pc[p] = "lock"
    /\ CanLock(stub)
    /\ stub' = [stub EXCEPT !.pc[p] = "write", !.writer = p]
    /\ StubFrame

\* Set: c.store[key] = value, begun
WriteBegin(p) ==
    /\ stub.pc[p] = "write"
    /\ stub' = [stub EXCEPT !.pc[p] = "writing",
                            !.store = (stub.op[p].key :> Partial) @@ @]
    /\ StubFrame

\* Set: c.store[key] = value, completed
WriteEnd(p) ==
    /\ stub.pc[p] = "writing"
    /\ stub' = [stub EXCEPT !.pc[p] = "unlock",
                            !.store = (stub.op[p].key :> stub.op[p].value) @@ @]
    /\ StubFrame

\* Set: defer c.mu.Unlock()
Unlock(p) ==
    /\ stub.pc[p] = "unlock"
    /\ stub' = [stub EXCEPT !.pc[p] = "done", !.writer = NoWriter]
    /\ StubFrame

NextCache ==
    \E p \in Procs :
        \/ \E key \in StubKeys : CallGet(p, key)
        \/ \E key \in StubKeys, value \in StubValues : CallSet(p, key, value)
        \/ RLock(p)
        \/ ReadStore(p)
        \/ RUnlock(p)
        \/ Lock(p)
        \/ WriteBegin(p)
        \/ WriteEnd(p)
        \/ Unlock(p)

SpecCache == InitCache /\ [][NextCache]_vars
(***************************************************************************)
(* Properties.                                                             *)
(***************************************************************************)
\* The number of "<file>:" lines of f in a text.
HeaderCount(text, f) ==
    Cardinality({j \in 1..Len(text) : text[j].kind = "header" /\ text[j].file = f})

\* The files that have a tag in a list of tags.
TaggedFiles(tags) == {tags[j].FileName : j \in 1..Len(tags)}

\* C1: whenever GenerateRepoMap returns a non-empty outline computed under an
\* effective token budget B > 0, the estimated token count of the returned
\* file listing is at most 1.15 * B.
C1_ListingWithinBudget ==
    (ret.called /\ ret.result # EmptyText /\ ret.budget > 0) =>
        LET n == TokenCount(ret.filesListing)
        IN n[1] * 100 <= 115 * ret.budget * n[2]

\* C2: no Def tag of a chat file is in the final ranked tag list, and the
\* outline returned by GenerateRepoMap has no "<file>:" block of a chat file.
C2_NoChatFileInOutline ==
    ret.called =>
        \A i \in 1..Len(ret.chatFiles) :
            LET rel == GetRelFname(ret.chatFiles[i])
            IN /\ rel \notin TaggedFiles(ret.finalTags)
               /\ HeaderCount(ret.result, rel) = 0

\* C3 (amended): every line of the file listing that toTree builds has at
\* most 100 bytes, and so has every line of the string GenerateRepoMap
\* returns that does not come from the configured content prefix, which is
\* prepended as it is.
C3_ListingLinesBounded ==
    ret.called =>
        /\ \A j \in 1..Len(ret.filesListing) : ret.filesListing[j].len <= MaxLineLen
        /\ \A j \in 1..Len(ret.result) :
               ret.result[j].kind # "prefix" => ret.result[j].len <= MaxLineLen

\* C3, witness: the outline shows a source line that is longer than 100
\* bytes in its file, cut to 100 bytes.
C3_TruncatedLineShown ==
    /\ ret.called
    /\ \E j \in 1..Len(ret.result) :
          /\ ret.result[j].kind = "code"
          /\ ret.result[j].len = MaxLineLen
          /\ files[ret.result[j].file][ret.result[j].row + 1].len > MaxLineLen

\* C3 as stated: every line of the string GenerateRepoMap returns has at
\* most 100 characters, for any configuration of the RepoMap.
C3_EveryLineBounded ==
    ret.called => \A j \in 1..Len(ret.result) : ret.result[j].len <= MaxLineLen

\* C4: when reading or rendering one file fails inside toTree, the block of
\* every other file that has tags is still emitted exactly once.
C4_OtherBlocksEmittedOnce ==
    ret.called =>
        \A f \in TaggedFiles(ret.finalTags) \ (ret.fail.read \cup ret.fail.render) :
            HeaderCount(ret.filesListing, f) = 1

\* The inputs of two calls of GenerateRepoMap are the same.
SameInputs(c1, c2) ==
    /\ c1.chatFiles = c2.chatFiles
    /\ c1.otherFiles = c2.otherFiles
    /\ c1.mentionedFnames = c2.mentionedFnames
    /\ c1.mentionedIdents = c2.mentionedIdents
    /\ c1.forceRefresh = c2.forceRefresh

\* C5: a call of GenerateRepoMap that follows a call with the same chat list,
\* repo list, mentioned files and mentioned identifiers, under the same
\* configuration and file bytes, returns the same string, whatever file
\* ranks the two rankings computed and whatever LastMap holds.
C5_SameInputsSameOutline ==
    [][(ret.called /\ ret'.called /\ SameInputs(ret, ret') /\ files' = files /\ cfg' = cfg)
          => ret'.result = ret.result]_vars

\* C5, witness: a call returned an outline although its ranking ordered the
\* tags differently from the ranking at the fixed point of the file ranks.
C5_RankingOrderVaried ==
    /\ ret.called
    /\ ret.result # EmptyText
    /\ ret.finalTags #
         getRankedTagsByPageRank(
             getTagsFromFiles(uniqueElements(ret.chatFiles, ret.otherFiles), files),
             ret.chatFiles, ret.mentionedFnames, ret.mentionedIdents, ZeroNoise)

\* C6: after rank distribution the sum of all edge ranks is at most the sum
\* of all file ranks.
C6_EdgeRankSumBounded ==
    rk.done =>
        SumOver(DOMAIN rk.edgeRanks, rk.edgeRanks) <= ShareScale * SumOver(rk.nodes, rk.pr)

\* C7: when Foo is defined in two files and referenced from other files,
\* both (definer, Foo) entries are ranked with and without the mention, and
\* the edge rank of each computed with mentioned identifiers {Foo} is
\* strictly greater than the one computed with no mentioned identifier.
C7_MentionRaisesEdgeRank ==
    (/\ rk.done
     /\ rk.mentionedIdents = {"Foo"}
     /\ Cardinality(rk.defines["Foo"]) = 2
     /\ Range(rk.references["Foo"]) # {}
     /\ Range(rk.references["Foo"]) \cap rk.defines["Foo"] = {}) =>
        \A d \in rk.defines["Foo"] :
            /\ <<d, "Foo">> \in DOMAIN rk.edgeRanks
            /\ <<d, "Foo">> \in DOMAIN rk.edgeRanksPlain
            /\ rk.edgeRanks[<<d, "Foo">>] > rk.edgeRanksPlain[<<d, "Foo">>]

\* C8: the file ranks depend on the mentioned-files set: when some but not
\* all file nodes are mentioned, the ranks differ from the ranks computed
\* with no mentioned file (a teleport vector with 100/N on the mentioned
\* nodes and 1/N on the others has another fixed point than the uniform one).
C8_RanksDependOnMentionedFiles ==
    (/\ rk.done
     /\ rk.mentionedFnames \cap rk.nodes # {}
     /\ rk.nodes \ rk.mentionedFnames # {}) =>
        rk.pr # rk.prPlain

\* C9: a call of GetRankedTagsMap that follows a call with the same key
\* (chat list, repo list, budget), with forceRefresh = false and a refresh
\* policy other than "always", returns the cached outline without
\* recomputation.
C9_SecondCallServedFromCache ==
    [][(/\ orb.op = "GetRankedTagsMap"
        /\ orb'.op = "GetRankedTagsMap"
        /\ orb'.key = orb.key
        /\ ~orb'.forceRefresh
        /\ cfg.Refresh # "always") => ~orb'.recomputed]_vars

\* C10 (amended): a lookup of a file that can be stat'ed returns the stored
\* tag list exactly when an entry is stored whose modification time equals
\* the file's current one, and leaves the cache as it is; otherwise it
\* re-extracts the tags and, when the extraction succeeds, returns them and
\* replaces the entry with (current mtime, new tags); when the extraction
\* fails, or the file cannot be stat'ed, it returns an error and leaves the
\* cache as it is.
C10_LookupFollowsMtime ==
    [][orb'.op = "GetTags" =>
         LET fname == orb'.fname
             f == GetRelFname(fname)
             raw == GetTagsRawOrb(fname, f, files[f])
             kept == TagsCache' = TagsCache
         IN IF mtime[f] < 0 THEN orb'.err /\ kept
            ELSE IF fname \in DOMAIN TagsCache /\ TagsCache[fname].mtime = mtime[f]
            THEN ~orb'.err /\ orb'.data = TagsCache[fname].data /\ kept
            ELSE IF raw.err THEN orb'.err /\ kept
            ELSE /\ ~orb'.err
                 /\ orb'.data = raw.data
                 /\ TagsCache' = (fname :> [mtime |-> mtime[f], data |-> raw.data])
                                     @@ TagsCache]_vars

\* C10, witness: a lookup found an entry stored under another modification
\* time, re-extracted the tags and left the entry under the current time.
C10_StaleEntryRefreshed ==
    /\ orb.op = "GetTags"
    /\ orb.had /\ ~orb.hit /\ ~orb.err
    /\ TagsCache[orb.fname] = [mtime |-> mtime[GetRelFname(orb.fname)], data |-> orb.data]

\* C10 as stated: a lookup returns the stored tag list exactly when the
\* stored modification time equals the current one, and otherwise replaces
\* the entry with one under the current modification time.
C10_MissAlwaysReplacesEntry ==
    [][(orb'.op = "GetTags" /\ mtime[GetRelFname(orb'.fname)] >= 0) =>
         LET fname == orb'.fname
             f == GetRelFname(fname)
         IN IF fname \in DOMAIN TagsCache /\ TagsCache[fname].mtime = mtime[f]
            THEN ~orb'.err /\ orb'.data = TagsCache[fname].data
            ELSE /\ fname \in DOMAIN TagsCache'
                 /\ TagsCache'[fname].mtime = mtime[f]]_vars

\* C11 (amended): with an empty chat list, a positive context window and a
\* positive min(maxMapTokens * fileMultiplier, max(0, maxContextWindow - 4096)),
\* the budget handed to GetRankedTagsMap is that minimum; in every other
\* case it is maxMapTokens.
C11_BudgetEnlargedWhenPositive ==
    (ret.called /\ cfg.MaxMapTokens > 0) =>
        LET t == cfg.MaxMapTokens * cfg.MapMulNoFiles
            t2 == IF cfg.MaxCtxWindow - 4096 < 0 THEN 0 ELSE cfg.MaxCtxWindow - 4096
            target == IF t < t2 THEN t ELSE t2
        IN IF ret.chatFiles = <<>> /\ cfg.MaxCtxWindow > 0 /\ target > 0
           THEN ret.budget = target
           ELSE ret.budget = cfg.MaxMapTokens

\* C11, witness: a call without chat files was given the context window
\* less the padding, which is below maxMapTokens * fileMultiplier and is
\* not maxMapTokens.
C11_BudgetCappedByWindow ==
    /\ ret.called
    /\ ret.chatFiles = <<>>
    /\ ret.budget = cfg.MaxCtxWindow - 4096
    /\ ret.budget < cfg.MaxMapTokens * cfg.MapMulNoFiles
    /\ ret.budget # cfg.MaxMapTokens

\* C11 as stated: with an empty chat list the budget handed over is
\* max(0, min(maxMapTokens * fileMultiplier, maxContextWindow - 4096)), with
\* a non-empty one it is maxMapTokens.
C11_BudgetIsCappedMinimum ==
    (ret.called /\ cfg.MaxMapTokens > 0) =>
        IF ret.chatFiles = <<>>
        THEN ret.budget = Max(0, Min(cfg.MaxMapTokens * cfg.MapMulNoFiles,
                                     cfg.MaxCtxWindow - 4096))
        ELSE ret.budget = cfg.MaxMapTokens

\* C12: the file listing GetRankedTagsMap returns is toTree applied to a
\* prefix T[:k], 0 <= k <= |T|, of the rank-ordered final tag list T.
C12_ListingIsTreeOfPrefix ==
    (ret.called /\ cfg.MaxMapTokens > 0) =>
        \E k \in 0..Len(ret.finalTags) :
            ret.filesListing = toTree(SubSeq(ret.finalTags, 1, k), ret.chatFiles, files,
                                      ret.fail)

\* C12, witness: a call ranked tags of two files or more and returned a
\* listing that is not the tree of the top-ranked tag alone.
C12_SeveralTagsRendered ==
    /\ ret.called
    /\ Cardinality(TaggedFiles(ret.finalTags)) >= 2
    /\ ret.filesListing # EmptyText
    /\ ret.filesListing # toTree(SubSeq(ret.finalTags, 1, 1), ret.chatFiles, files, ret.fail)

\* C13: a call of GenerateRepoMap under a max-map-token budget <= 0 returns
\* the empty string, extracts, ranks and renders nothing, and leaves LastMap
\* and the caches as they were.
C13_DisabledReturnsEmpty ==
    [][(cfg' = cfg /\ cfg.MaxMapTokens <= 0) =>
         /\ ret'.called
         /\ ret'.result = EmptyText
         /\ ret'.filesListing = EmptyText
         /\ ret'.finalTags = <<>>
         /\ LastMap' = LastMap
         /\ UNCHANGED <<files, TagsCache, MapCache, WarnedFiles>>]_vars

\* C13, witness: a call under a budget <= 0 returned the empty string after
\* an earlier call had left an outline in LastMap, which is still there.
C13_DisabledAfterOutline ==
    /\ ret.called
    /\ cfg.MaxMapTokens <= 0
    /\ ret.budget = 0
    /\ ret.result = EmptyText
    /\ LastMap # EmptyText

\* The place of a file in a list of files without repetition.
IndexOf(fnames, fname) == CHOOSE i \in 1..Len(fnames) : fnames[i] = fname

\* C14: the tag list getTagsFromFiles returns is the concatenation, in
\* input order, of the tags of the files whose extraction succeeds: the
\* tags of each such file are all there in their order, whatever file
\* before it failed, a failing file contributes none, and the files follow
\* one another as in the input.
C14_TagsOfSucceedingFilesInOrder ==
    (ret.called /\ cfg.MaxMapTokens > 0) =>
        LET allFnames == uniqueElements(ret.chatFiles, ret.otherFiles)
            code(i) == files[GetRelFname(allFnames[i])]
            tagsOf(i) == SelectSeq(ret.allTags, LAMBDA t : t.FilePath = allFnames[i])
        IN /\ \A i \in 1..Len(allFnames) :
                  tagsOf(i) = IF code(i) = <<>> THEN <<>>
                              ELSE GetTagsRaw(allFnames[i], GetRelFname(allFnames[i]), code(i))
           /\ \A j \in 1..Len(ret.allTags) :
                  \E i \in 1..Len(allFnames) : ret.allTags[j].FilePath = allFnames[i]
           /\ \A j, k \in 1..Len(ret.allTags) :
                  j < k => IndexOf(allFnames, ret.allTags[j].FilePath)
                             <= IndexOf(allFnames, ret.allTags[k].FilePath)

\* C14, witness: a call gathered the tags of a file that comes after a file
\* whose extraction failed.
C14_TagsGatheredAfterFailure ==
    /\ ret.called
    /\ LET allFnames == uniqueElements(ret.chatFiles, ret.otherFiles)
       IN \E i, k \in 1..Len(allFnames) :
             /\ i < k
             /\ ExtractionFails(files[GetRelFname(allFnames[i])])
             /\ \E j \in 1..Len(ret.allTags) : ret.allTags[j].FilePath = allFnames[k]

\* C15: across the calls of GenerateRepoMap on one RepoMap the extraction
\* error of a path is logged at most once: a path for which a call logged a
\* warning is not warned about again by the next call.
C15_ExtractionErrorLoggedOnce ==
    [][(ret.called /\ ret'.called) => ret.warnings \cap ret'.warnings = {}]_vars

\* C16: a call of GenerateRepoMap during which cancellation is requested
\* yields the cancelled failure, and no outline, partial or whole.
C16_CancelYieldsCancelledFailure ==
    (ret.called /\ CancelRequested(ret)) => Outcome(ret) = "cancelled"

\* The tags of a list hold no reference.
DefinitionsOnly(tags) == \A i \in 1..Len(tags) : tags[i].Kind # TagKindRef

\* C17: after buildReferenceMaps the identifiers are the symbols that are a
\* key of defines and a key of references; and when the tags hold no Ref
\* tag, references has the keys of defines and, for each symbol, one entry
\* per defining file and no other, and getRankedTagsByPageRank returns
\* every Def tag, once.
C17_IdentifiersAndFallback ==
    rk.done =>
        /\ rk.identifiers = {s \in Symbols : rk.defines[s] # {}}
                               \cap {s \in Symbols : rk.references[s] # <<>>}
        /\ DefinitionsOnly(rk.allTags) =>
              /\ \A s \in Symbols :
                    /\ (rk.references[s] # <<>>) <=> (rk.defines[s] # {})
                    /\ \A f \in Files :
                          Count(rk.references[s], f) = IF f \in rk.defines[s] THEN 1 ELSE 0
              /\ Len(rk.rankedTags) = Len(rk.allTags)
              /\ \A i \in 1..Len(rk.allTags) : Count(rk.rankedTags, rk.allTags[i]) = 1

\* C17, witness: a ranking of tags without any reference, in which one
\* symbol has two defining files, returned Def tags.
C17_FallbackRanked ==
    /\ rk.done
    /\ DefinitionsOnly(rk.allTags)
    /\ \E s \in Symbols : Cardinality(rk.defines[s]) = 2
    /\ Len(rk.rankedTags) >= 3

\* The file of the first "<file>:" line of a text.
FirstBlock(text) ==
    text[CHOOSE j \in 1..Len(text) :
            /\ text[j].kind = "header"
            /\ \A i \in 1..(j - 1) : text[i].kind # "header"].file

\* C18: when the tags are Def tags of one symbol in a single file and Ref
\* tags of that symbol in other files, the first tag getRankedTagsByPageRank
\* returns is a Def tag of the symbol in the defining file, and the first
\* file block of the outline is the defining file.
C18_DefinerRankedFirst ==
    ret.called =>
        /\ ret.finalTags # <<>>
        /\ ret.finalTags[1].Kind = TagKindDef
        /\ ret.finalTags[1].Name = "Foo"
        /\ ret.finalTags[1].FileName = Definer(files)
        /\ \E j \in 1..Len(ret.result) : ret.result[j].kind = "header"
        /\ FirstBlock(ret.result) = Definer(files)

\* C18, witness: the defining file comes last in the file order, two other
\* files refer to the symbol, and a call returned an outline.
C18_LastFileDefines ==
    /\ ret.called
    /\ ret.result # EmptyText
    /\ Definer(files) = FileOrder[Len(FileOrder)]
    /\ Cardinality({f \in Files : files[f] # ContentEmpty}) = 3

\* C19: after NewRepoMap with the single option WithMaxContextWindow(v) the
\* maximum context window is v, with WithMapMulNoFiles(v) the no-chat-files
\* multiplier is v, with WithMaxTokens(v) the maximum map tokens is v, and
\* the other two of the three settings are at their defaults.
C19_OptionSetsItsSetting ==
    Len(options) = 1 =>
        LET v == options[1].value
            name == options[1].name
        IN /\ cfg.MaxCtxWindow =
                 IF name = "WithMaxContextWindow" THEN v ELSE defaultMaxCtxWindow
           /\ cfg.MapMulNoFiles =
                 IF name = "WithMapMulNoFiles" THEN v ELSE defaultMaxCtxFileMultiplier
           /\ cfg.MaxMapTokens =
                 IF name = "WithMaxTokens" THEN v ELSE defaultMaxMapTokens

\* C20: GetTagsFromQueryCapture emits, in capture order, one tag for each
\* capture the filter accepts whose label starts with "name.definition."
\* (a Def tag) or with "name.reference." (a Ref tag) and none for any other
\* capture; the name of the tag is the text of the captured node and its
\* line the 0-based row the node starts on.
C20_OneTagPerNamedCapture ==
    qc.done =>
        LET cs == qc.captures
            IsDef(c) == Len(c.label) >= 3 /\ SubSeq(c.label, 1, 2) = <<"name", "definition">>
            IsRef(c) == Len(c.label) >= 3 /\ SubSeq(c.label, 1, 2) = <<"name", "reference">>
            emitted == SelectSeq([i \in 1..Len(cs) |-> i],
                                 LAMBDA i : /\ cs[i].text \notin qc.rejected
                                            /\ (IsDef(cs[i]) \/ IsRef(cs[i])))
        IN /\ Len(qc.tags) = Len(emitted)
           /\ \A j \in 1..Len(emitted) :
                 /\ qc.tags[j].Kind = IF IsDef(cs[emitted[j]]) THEN TagKindDef ELSE TagKindRef
                 /\ qc.tags[j].Name = cs[emitted[j]].text
                 /\ qc.tags[j].Line = cs[emitted[j]].row

\* C20, witness: of two captures the first was dropped and the second, a
\* reference on the tenth row, became the only tag, on line 9.
C20_ReferenceOnTenthRow ==
    /\ qc.done
    /\ Len(qc.captures) = 2
    /\ Len(qc.tags) = 1
    /\ qc.tags[1].Kind = TagKindRef
    /\ qc.tags[1].Line = 9

\* the first position of x in the sequence s
FirstIndex(s, x) == CHOOSE i \in 1..Len(s) : s[i] = x /\ \A j \in 1..(i - 1) : s[j] # x

\* C21: uniqueElements returns every element that occurs in any of its slices
\* exactly once, in the order of the first occurrences over the slices taken
\* one after the other, and returns an empty, non-nil list when the slices
\* hold nothing.
C21_UniqueInFirstOccurrenceOrder ==
    ue.done =>
        LET all == ue.slice1 \o ue.slice2
            r == ue.result
        IN /\ Range(r) = Range(all)
           /\ \A i, j \in 1..Len(r) : r[i] = r[j] => i = j
           /\ \A i, j \in 1..Len(r) : i < j => FirstIndex(all, r[i]) < FirstIndex(all, r[j])
           /\ all = <<>> => r = <<>> /\ ~ue.isNil

\* a name of the second slice is dropped because the first slice held it,
\* and a name repeated within a slice is kept once
C21_DuplicatesDropped ==
    /\ ue.done
    /\ ue.slice1 = <<AbsPath("b.go"), AbsPath("a.go")>>
    /\ ue.slice2 = <<AbsPath("a.go"), AbsPath("c.go")>>
    /\ ue.result = <<AbsPath("b.go"), AbsPath("a.go"), AbsPath("c.go")>>

\* C22: toTree leaves the list it is given as it was: after every call
\* toTree(T[:mid]) of the budget search the ranked list of the caller holds
\* the same tags in the same order, and the call has rendered the mid
\* highest-ranked tags.
C22_ToTreeLeavesListUnchanged ==
    (bs.started /\ bs.calls > 0) =>
        /\ bs.finalTags = bs.ranked
        /\ bs.tree = toTreeOrb(bs.ranked, bs.rendered, bs.chatFnames).tree

\* C26: the budget search terminates: every iteration that does not break
\* starts with lb <= middle <= ub and either raises lb to middle + 1 or
\* lowers ub to middle - 1, so ub - lb gets strictly smaller, and the loop
\* runs only while lb <= ub.
C26_SearchIntervalShrinks ==
    [][(bs.started /\ bs'.calls = bs.calls + 1 /\ ~bs'.broke) =>
          /\ bs.lb <= bs.middle /\ bs.middle <= bs.ub
          /\ \/ bs'.lb = bs.middle + 1 /\ bs'.ub = bs.ub
             \/ bs'.ub = bs.middle - 1 /\ bs'.lb = bs.lb
          /\ bs'.ub - bs'.lb < bs.ub - bs.lb
          /\ bs'.calls <= Len(bs.ranked) + 1]_vars

\* the loop has run three times without a break and ended with lb > ub
C26_SearchExhausted ==
    bs.done /\ ~bs.broke /\ bs.calls >= 3 /\ bs.lb > bs.ub

\* The files of the "<file>:" lines of a text, in the order of the text.
HeaderFiles(text) ==
    LET rows == SelectSeq([j \in 1..Len(text) |-> j], LAMBDA j : text[j].kind = "header")
    IN [k \in 1..Len(rows) |-> text[rows[k]].file]

KeyOf(t) == <<t.FileName, t.Name>>

\* Key k1 comes before key k2: higher rank, then lower file name, then
\* lower symbol.
Before(edgeRanks, k1, k2) ==
    \/ edgeRanks[k1] > edgeRanks[k2]
    \/ edgeRanks[k1] = edgeRanks[k2] /\ FileLess(k1[1], k2[1])
    \/ edgeRanks[k1] = edgeRanks[k2] /\ k1[1] = k2[1] /\ SymbolLess(k1[2], k2[2])

\* C25: the (file, symbol, rank) entries are sorted by rank descending, then
\* file ascending, then symbol ascending, which orders any two different
\* keys one way only; the final tag list is the concatenation, in that
\* order, of the Def tags of each key in their original order.
C25_SortedKeysExpandedInOrder ==
    rk.done =>
        LET T == rk.rankedTags
            keys == DOMAIN rk.edgeRanks
            defs == SelectSeq(rk.allTags,
                              LAMBDA t : t.Kind = TagKindDef /\ KeyOf(t) \in keys)
        IN /\ \A k1, k2 \in keys :
                 k1 # k2 => (Before(rk.edgeRanks, k1, k2) <=> ~Before(rk.edgeRanks, k2, k1))
           /\ Len(T) = Len(defs)
           /\ \A i \in 1..Len(defs) : Count(T, defs[i]) = Count(defs, defs[i])
           /\ \A i, j \in 1..Len(T) :
                 i < j => IF KeyOf(T[i]) = KeyOf(T[j])
                          THEN FirstIndex(rk.allTags, T[i]) < FirstIndex(rk.allTags, T[j])
                          ELSE Before(rk.edgeRanks, KeyOf(T[i]), KeyOf(T[j]))

\* two keys of equal rank in different files, a key of another rank, and a
\* key with two Def tags
C25_TieAndTwoTagsOfOneKey ==
    /\ rk.done
    /\ \E k1, k2, k3 \in DOMAIN rk.edgeRanks :
          /\ k1[1] # k2[1] /\ rk.edgeRanks[k1] = rk.edgeRanks[k2]
          /\ rk.edgeRanks[k3] # rk.edgeRanks[k1]
    /\ \E i, j \in 1..Len(rk.rankedTags) :
          i # j /\ KeyOf(rk.rankedTags[i]) = KeyOf(rk.rankedTags[j])

\* The goroutines inside Get, between RLock and RUnlock.
Reading == {p \in Procs : stub.pc[p] \in {"read", "runlock"}}

\* The goroutines inside Set, between Lock and Unlock.
Writing == {p \in Procs : stub.pc[p] \in {"write", "writing", "unlock"}}

\* The store after the Sets of the goroutines of order, one after the other.
RECURSIVE ApplySets(_, _)
ApplySets(order, store) ==
    IF order = <<>> THEN store
    ELSE ApplySets(Tail(order),
                   (stub.op[Head(order)].key :> stub.op[Head(order)].value) @@ store)

\* C27: under every interleaving of concurrent operations on the tag cache
\* a Set overlaps neither a Get nor another Set, a Get never returns a
\* partial entry, and when all operations have returned the store is what
\* the Sets leave behind when run one after the other in some order.
C27_SetExcludesGetAndSet ==
    /\ Writing # {} => Cardinality(Writing) = 1 /\ Reading = {}
    /\ \A p \in Procs :
          (stub.op[p].kind = "Get" /\ stub.got[p].ok) => stub.got[p].val \in StubValues
    /\ (\A p \in Procs : stub.pc[p] = "done") =>
          LET setters == {p \in Procs : stub.op[p].kind = "Set"}
          IN \E order \in [1..Cardinality(setters) -> setters] :
                /\ \A i, j \in DOMAIN order : order[i] = order[j] => i = j
                /\ stub.store = ApplySets(order, NoEntries)

\* two Gets overlap while a Set of the key one of them reads waits for the
\* lock
C27_GetsOverlapSetWaits ==
    /\ Cardinality(Reading) = 2
    /\ \E p \in Procs, q \in Reading :
          stub.pc[p] = "lock" /\ stub.op[p].key = stub.op[q].key

\* C28: the tag extractor emits no tag for a capture over an empty node,
\* with or without a filter: the tags are as many as the captures with a
\* text that would have been emitted, and none has the empty name.
C28_NoTagForEmptyCapture ==
    qc.done =>
        /\ \A j \in 1..Len(qc.tags) : qc.tags[j].Name # ""
        /\ qc.tags = GetTagsFromQueryCapture("a.go", AbsPath("a.go"),
                                             SelectSeq(qc.captures, LAMBDA c : c.text # ""),
                                             qc.rejected)

\* C29: getRankedTagsByPageRank returns the Def tags, each as often as the
\* input holds it, of the symbols that are defined and referenced (after
\* the fallback, which makes every defined symbol referenced when the input
\* has no Ref tag) and nothing else: no Ref tag and, when the input has a
\* Ref tag, no Def tag of a symbol that no Ref tag names.
C29_RankedAreDefsOfReferencedSymbols ==
    rk.done =>
        LET T == rk.rankedTags
            refNames == {rk.allTags[i].Name : i \in {j \in 1..Len(rk.allTags) :
                                                       rk.allTags[j].Kind = TagKindRef}}
            hasRef == refNames # {}
            expected == SelectSeq(rk.allTags,
                                  LAMBDA t : /\ t.Kind = TagKindDef
                                             /\ (hasRef => t.Name \in refNames))
        IN /\ \A t \in Range(rk.allTags) \cup Range(T) : Count(T, t) = Count(expected, t)
           /\ \A i \in 1..Len(T) : T[i].Kind # TagKindRef
           /\ hasRef => \A i \in 1..Len(T) : T[i].Name \in refNames

\* the input has a Ref tag, a Def tag of a symbol that is never referenced,
\* which is left out, and Def tags that are returned
C29_UnreferencedDefinitionLeftOut ==
    /\ rk.done
    /\ rk.rankedTags # <<>>
    /\ \E i, j \in 1..Len(rk.allTags) :
          /\ rk.allTags[i].Kind = TagKindRef
          /\ rk.allTags[j].Kind = TagKindDef
          /\ \A k \in 1..Len(rk.allTags) :
                rk.allTags[k].Kind = TagKindRef => rk.allTags[k].Name # rk.allTags[j].Name
          /\ rk.allTags[j] \notin Range(rk.rankedTags)

\* C30: whenever GenerateRepoMap calls GetRankedTagsMap, which it does when
\* maxMapTokens is positive, the budget it passes is strictly positive,
\* for every maxMapTokens, context window, multiplier and chat list.
C30_BudgetPassedIsPositive ==
    (ret.called /\ ~RepoMapDisabled(cfg)) => ret.budget > 0

\* a call without chat files whose target was not positive went on with
\* maxMapTokens
C30_NonPositiveTargetNotUsed ==
    /\ ret.called
    /\ ~RepoMapDisabled(cfg)
    /\ ret.chatFiles = <<>>
    /\ cfg.MaxCtxWindow > 0
    /\ Min(cfg.MaxMapTokens * cfg.MapMulNoFiles, Max(cfg.MaxCtxWindow - padding, 0)) < 0
    /\ ret.budget = cfg.MaxMapTokens

====
